---- MODULE Spec2Model ----
(***************************************************************************)
(* A.I.T.I.A autonomous RCA pipeline.                                      *)
(*                                                                         *)
(*   AsyncRCAController   src/src/agents/controller.py                     *)
(*   HTTP handlers        src/src/api/server.py                            *)
(*   HybridLogStore       src/src/models/memory.py                         *)
(*   LocalDiagnostician   src/src/models/llm_client.py                     *)
(*   SafetyGuardrail      src/src/agents/safety_guardrail.py               *)
(*   TemporalKnowledgeGraph  src/src/causal/graph.py                       *)
(*                                                                         *)
(* The controller runs four coroutines on one asyncio event loop.  A       *)
(* coroutine runs without interruption between two awaits, so every action *)
(* below is the code between two consecutive awaits of one coroutine (or   *)
(* one whole HTTP handler when it does not await anything that yields).    *)
(* Work handed to run_in_executor runs in a worker thread; it is split at  *)
(* its accesses to shared state.                                           *)
(*                                                                         *)
(* Conventions.  A Python str is the tuple of its characters.  A float     *)
(* confidence is an integer number of hundredths.  Controller time is in   *)
(* whole minutes.  Graph time is in units of half a millisecond.           *)
(***************************************************************************)
EXTENDS Integers, Sequences, FiniteSets, TLC

VARIABLES
    running,              \* AsyncRCAController._running
    raw_queue,            \* AsyncRCAController.raw_queue
    action_queue,         \* AsyncRCAController.action_queue
    stats,                \* AsyncRCAController.stats
    remediation_history,  \* AsyncRCAController.remediation_history
    memory,               \* HybridLogStore.collection, in insertion order
    now,                  \* wall clock read by datetime.now()
    pc_ingestion,         \* position of _ingestion_loop
    cur_log,              \* the log _ingestion_loop holds after its get()
    pc_analysis,          \* position of _analysis_loop
    recent_errors,        \* len(recent_errors) of the running analysis cycle
    pending,              \* the dict _analysis_loop is about to put
    pc_action,            \* position of _action_loop
    pc_monitoring,        \* position of _monitoring_loop
    start_raised,         \* an exception has propagated out of start()
    n_submitted,          \* history: number of submit_log calls so far
    dropped,              \* history: ids of the logs submit_log discarded
    n_cycles,             \* history: number of analysis cycles begun
    n_exec,               \* history: number of remediations executed
    exec_since_clear,     \* history: remediations executed since the last clear
    graph_edges,          \* TemporalKnowledgeGraph.graph: edge (u, v) -> its 'observations' deque
    graph_nodes,          \* TemporalKnowledgeGraph.graph: node -> its attributes
    service_states,       \* TemporalKnowledgeGraph.service_states
    observations,         \* TemporalKnowledgeGraph.observations, the global time index
    neighbors,            \* the call on the graph that has just returned, if it was
                          \* get_causal_neighbors, and the dict it returned
    n_added,              \* history: number of add_observation calls so far
    add_calls,            \* history: the add_observation calls so far, in order
    verdicts,             \* history: the latest validate_command calls, each with the
                          \* command it was handed and the dict it returned
    cached_model,         \* AsyncRCAController has the attribute _cached_model
    n_fits,               \* history: number of causal_engine.build_model calls that returned
    failed,               \* history: ids of the logs whose _sync_ingest raised
    max_edges,            \* TemporalKnowledgeGraph.max_edges, the maxlen of the index
    lock,                 \* TemporalKnowledgeGraph._lock: its holder, if any
    callers               \* the coroutines calling the graph: position and arguments

ctl_vars ==
    << running, raw_queue, action_queue, stats, remediation_history, memory, now,
       pc_ingestion, cur_log, pc_analysis, recent_errors, pending, pc_action,
       pc_monitoring, start_raised, n_submitted, dropped, n_cycles, n_exec,
       exec_since_clear, cached_model, n_fits, failed >>

\* what _build_context keeps of the causal model
fit_vars ==
    << cached_model, n_fits >>

\* the lock of the graph and the coroutines that take it
lock_vars ==
    << lock, callers >>

graph_vars ==
    << graph_edges, graph_nodes, service_states, observations, neighbors, n_added,
       add_calls, max_edges, lock_vars >>

guard_vars ==
    << verdicts >>

vars ==
    << ctl_vars, graph_vars, guard_vars >>

(***************************************************************************)
(* Bounds of the model.                                                    *)
(***************************************************************************)
\* max_queue_size handed to AsyncRCAController(...)
MaxQueueSize ==
    2
\* submit_log calls in one run
MaxSubmits ==
    3
\* analysis cycles in one run
MaxCycles ==
    1
\* submit_log calls in one run of the incident scenario
MaxIncidentSubmits ==
    4
\* analysis cycles in one run under sustained load
MaxLoadCycles ==
    51
\* analysis cycles in one run of the history scenario, and the requests that may
\* wait in action_queue when one of its cycles begins
MaxHistoryCycles ==
    26
MaxBacklog ==
    0
\* max_edges handed to TemporalKnowledgeGraph(...)
MaxEdges ==
    2
\* add_observation calls in one run
MaxAdds ==
    3
\* the latest instant of graph time
MaxTime ==
    3
\* add_observation calls in one run that fills an edge's deque, and the calls its
\* caller makes per unit of graph time
MaxCapAdds ==
    101
CallsPerTick ==
    40
\* add_observation calls of one of the concurrent callers
MaxWrites ==
    2
\* analysis cycles and submit_log calls in one run of the threshold scenario
MaxThresholdCycles ==
    2
\* add_observation calls of the callers that contend for the lock
MaxLockAdds ==
    2
MaxModelSubmits ==
    2
MaxModelCycles ==
    2
\* max_edges and the number of calls of the caller with unordered timestamps
MaxWideEdges ==
    4
MaxUnsortedAdds ==
    4
MaxFifoCycles ==
    3
MaxThresholdSubmits ==
    1
\* words of one command handed to validate_command
MaxTokens ==
    3
\* validate_command calls whose results are compared with each other
MaxCompared ==
    2

(***************************************************************************)
(* Program constants.                                                      *)
(***************************************************************************)
ActionQueueMaxsize ==
    50
HistoryLimit ==
    20
LookbackMinutes ==
    5
AnomalyThreshold ==
    3
\* "if len(all_data) > 100"
MinModelRows ==
    100
\* "self.stats['processed'] % 500 == 0"
RebuildPeriod ==
    500
ConfidenceThreshold ==
    80
\* deque(maxlen=100) of an edge
EdgeMaxlen ==
    100
\* 0.001 s
Epsilon ==
    2

\* Python's None for a variable that otherwise holds a dict or an object: such a
\* variable is a sequence of at most one element
None ==
    << >>
Some(x) ==
    << x >>
Absent ==
    "<absent>"

(***************************************************************************)
(* Python str values.                                                      *)
(***************************************************************************)
UpperCase ==
    << "A", "B", "C", "D", "E", "F", "G", "H", "I", "J", "K", "L", "M",
       "N", "O", "P", "Q", "R", "S", "T", "U", "V", "W", "X", "Y", "Z" >>
LowerCase ==
    << "a", "b", "c", "d", "e", "f", "g", "h", "i", "j", "k", "l", "m",
       "n", "o", "p", "q", "r", "s", "t", "u", "v", "w", "x", "y", "z" >>

\* str.lower() on one character
LowerChar(c) ==
    IF \E i \in 1..26 : UpperCase[i] = c
    THEN LowerCase[CHOOSE i \in 1..26 : UpperCase[i] = c]
    ELSE c

\* str.lower()
Lower(s) ==
    [i \in 1..Len(s) |-> LowerChar(s[i])]

\* the Python expression  sub in s
Contains(s, sub) ==
    \E i \in 1..(Len(s) - Len(sub) + 1) : SubSeq(s, i, i + Len(sub) - 1) = sub

\* s.startswith(prefix)
StartsWith(s, prefix) ==
    /\ Len(prefix) <= Len(s)
    /\ SubSeq(s, 1, Len(prefix)) = prefix

\* the first verb of the list that occurs in s, alone
RECURSIVE SelectFirstVerb(_, _)
SelectFirstVerb(verbs, s) ==
    IF verbs = << >> THEN << >>
    ELSE IF Contains(s, Head(verbs)) THEN << Head(verbs) >>
    ELSE SelectFirstVerb(Tail(verbs), s)

\* the verbs of the list that occur in s, in list order ("for verb in ...: if verb in s")
RECURSIVE SelectVerbs(_, _)
SelectVerbs(verbs, s) ==
    IF verbs = << >> THEN << >>
    ELSE (IF Contains(s, Head(verbs)) THEN << Head(verbs) >> ELSE << >>)
         \o SelectVerbs(Tail(verbs), s)

(***************************************************************************)
(* SafetyGuardrail (safety_guardrail.py).                                  *)
(***************************************************************************)
s_delete ==
    << "d", "e", "l", "e", "t", "e" >>
s_remove ==
    << "r", "e", "m", "o", "v", "e" >>
s_drop ==
    << "d", "r", "o", "p" >>
s_restart ==
    << "r", "e", "s", "t", "a", "r", "t" >>
s_reboot ==
    << "r", "e", "b", "o", "o", "t" >>
s_scale ==
    << "s", "c", "a", "l", "e" >>
s_edit ==
    << "e", "d", "i", "t" >>
s_set ==
    << "s", "e", "t" >>
s_annotate ==
    << "a", "n", "n", "o", "t", "a", "t", "e" >>
s_label ==
    << "l", "a", "b", "e", "l" >>
s_rollout ==
    << "r", "o", "l", "l", "o", "u", "t" >>
s_kubectl ==
    << "k", "u", "b", "e", "c", "t", "l" >>
s_terraform ==
    << "t", "e", "r", "r", "a", "f", "o", "r", "m" >>
s_force ==
    << "-", "-", "f", "o", "r", "c", "e" >>
s_scale_up ==
    << "s", "c", "a", "l", "e", "_", "u", "p" >>
s_restart_service ==
    << "r", "e", "s", "t", "a", "r", "t", "_", "s", "e", "r", "v", "i", "c", "e" >>
s_page_human ==
    << "p", "a", "g", "e", "_", "h", "u", "m", "a", "n" >>

s_rm ==
    << "r", "m" >>
s_rf ==
    << "-", "r", "f" >>
s_slash ==
    << "/" >>
s_pod ==
    << "p", "o", "d" >>
s_x ==
    << "x" >>
s_deployment ==
    << "d", "e", "p", "l", "o", "y", "m", "e", "n", "t" >>
s_replicas ==
    << "-", "-", "r", "e", "p", "l", "i", "c", "a", "s", "=", "3" >>
s_Delete ==
    << "D", "e", "l", "e", "t", "e" >>
s_reset ==
    << "r", "e", "s", "e", "t" >>

FORBIDDEN_VERBS ==
    << s_delete, s_remove, s_drop, s_restart, s_reboot >>
SAFE_VERBS ==
    << s_scale, s_edit, s_set, s_annotate, s_label, s_rollout >>

\* one entry of the issues list: its severity and the text it is about
Issue(severity, about) ==
    [severity |-> severity, about |-> about]

\* a flag check that finds nothing
ForceFlagIgnored(cmd_lower) ==
    FALSE

\* '"--force" in cmd_lower'
ForceFlag(cmd_lower) ==
    Contains(cmd_lower, s_force)

\* 'not (cmd_lower.startswith("kubectl") or cmd_lower.startswith("terraform"))'
PrefixMissing(cmd_lower) ==
    ~(StartsWith(cmd_lower, s_kubectl) \/ StartsWith(cmd_lower, s_terraform))

\* a score handed back as it is
Unclamped(score) ==
    score

\* max(0, score)
Clamp(score) ==
    IF score > 0 THEN score ELSE 0

\* an assessment that depends on the calls made before
validate_command_remembering(command) ==
    [ is_safe |-> verdicts = << >>,
      security_score |-> IF verdicts = << >> THEN 100 ELSE 0,
      issues |-> << >>,
      simulated_outcome |-> "Command execution HALTED by Safety Policy." ]

\* SafetyGuardrail.validate_command
validate_command(command) ==
    LET cmd_lower == Lower(command)
        found     == SelectVerbs(FORBIDDEN_VERBS, cmd_lower)
        issues1   == [i \in 1..Len(found) |-> Issue("CRITICAL", found[i])]
        score1    == 100 - 100 * Len(found)
        safe1     == Len(found) = 0
        no_prefix == PrefixMissing(cmd_lower)
        score2    == IF no_prefix THEN score1 - 20 ELSE score1
        issues2   == IF no_prefix THEN Append(issues1, Issue("WARNING", "not an Infrastructure-as-Code tool")) ELSE issues1
        force     == ForceFlag(cmd_lower)
        score3    == IF force THEN score2 - 50 ELSE score2
        safe3     == safe1 /\ ~force
        issues3   == IF force THEN Append(issues2, Issue("CRITICAL", s_force)) ELSE issues2
        has_safe_verb == Len(SelectVerbs(SAFE_VERBS, cmd_lower)) > 0
        unlisted  == ~has_safe_verb /\ safe3
        score4    == IF unlisted THEN score3 - 30 ELSE score3
        issues4   == IF unlisted THEN Append(issues3, Issue("WARNING", "verb not in the whitelist")) ELSE issues3
    IN  [ is_safe |-> safe3,
          security_score |-> Clamp(score4),
          issues |-> issues4,
          simulated_outcome |-> IF safe3 THEN "Command would update resource specifications."
                                ELSE "Command execution HALTED by Safety Policy." ]

\* one call of validate_command(command); keep is the length of the history
validate(command, keep) ==
    /\ verdicts' =
           LET v == [command |-> command, result |-> validate_command(command)]
           IN  IF Len(verdicts) >= keep THEN Append(Tail(verdicts), v)
               ELSE Append(verdicts, v)
    /\ UNCHANGED << ctl_vars, graph_vars >>


(***************************************************************************)
(* Values exchanged with the collaborators.                                *)
(***************************************************************************)
Levels ==
    { "ERROR", "INFO" }

\* LogEntry: id is the identity of the object, ts its timestamp in minutes
LogEntry(id, level, ts) ==
    [id |-> id, level |-> level, ts |-> ts]

\* the metadata _sync_ingest stores for a log
Metadata(log) ==
    [id |-> log.id, ts |-> log.ts, level |-> log.level,
     error_count |-> IF log.level = "ERROR" THEN 1 ELSE 0]

\* what LocalDiagnostician.diagnose returns: a dict; Absent marks a missing key
Diagnosis(confidence, action, service, cause) ==
    [confidence_score |-> confidence, recommended_action |-> action,
     affected_service |-> service, root_cause |-> cause]

DiagScale ==
    Diagnosis(90, s_scale_up, "payment-db", "pool exhaustion")
DiagRestart ==
    Diagnosis(90, s_restart_service, "payment-db", "deadlock")
DiagAtThreshold ==
    Diagnosis(80, s_scale_up, "payment-db", "pool exhaustion")
\* the fallback of diagnose when the upstream call fails
DiagFallback ==
    Diagnosis(0, s_page_human, Absent, "LLM Error")
\* a model answer that lacks the affected_service key
DiagNoService ==
    Diagnosis(90, s_scale_up, Absent, "pool exhaustion")

Diagnoses ==
    { DiagScale, DiagRestart, DiagAtThreshold, DiagFallback, DiagNoService }

(***************************************************************************)
(* The Diagnosticians.  An outcome is what the upstream call did: it       *)
(* answered with JSON (content, and whether the JSON has the keys          *)
(* confidence_score and recommended_action), answered with text that is    *)
(* not JSON, could not be reached, or refused with HTTP 429.               *)
(***************************************************************************)
Answer(content, has_confidence, has_action) ==
    [kind |-> "answer", content |-> content, has_confidence |-> has_confidence,
     has_action |-> has_action]
Failure(kind) ==
    [kind |-> kind, content |-> DiagFallback, has_confidence |-> FALSE,
     has_action |-> FALSE]

FailedOutcomes ==
    { Failure("unparsable"), Failure("unreachable"), Failure("rate_limited") }
UpstreamOutcomes ==
    { Answer(DiagScale, TRUE, TRUE), Answer(DiagNoService, TRUE, TRUE),
      Answer(DiagScale, FALSE, TRUE), Answer(DiagScale, TRUE, FALSE) }
        \cup FailedOutcomes

\* a diagnose that passes a failure on as a confident answer
diagnose_trusting(outcome) ==
    IF outcome.kind = "answer" THEN outcome.content ELSE DiagRestart

\* LocalDiagnostician.diagnose
diagnose(outcome) ==
    CASE outcome.kind = "answer" ->
             Diagnosis(IF outcome.has_confidence THEN outcome.content.confidence_score
                       ELSE 50,
                       IF outcome.has_action THEN outcome.content.recommended_action
                       ELSE s_page_human,
                       outcome.content.affected_service, outcome.content.root_cause)
      [] outcome.kind = "unparsable" ->
             Diagnosis(0, s_page_human, Absent, "Parse error in LLM response")
      [] OTHER -> DiagFallback

\* GroqDiagnostician.diagnose for a context whose service is payment-db
groq_diagnose(outcome) ==
    CASE outcome.kind = "answer" -> outcome.content
      [] outcome.kind = "rate_limited" ->
             Diagnosis(10, s_page_human, "payment-db", "Diagnosis throttled by rate limit")
      [] OTHER -> Diagnosis(0, s_page_human, "payment-db", "Diagnosis failed")

(***************************************************************************)
(* asyncio.Queue.                                                          *)
(***************************************************************************)
\* a queue that never reports itself full
NeverFull(q, maxsize) ==
    FALSE

\* Queue.full()
Full(q, maxsize) ==
    Len(q) >= maxsize

\* a variant of PutNowaitOrDrop: the queue has no capacity check
PutNowaitUnbounded(q, maxsize, item) ==
    Append(q, item)

\* a put_nowait that puts the item at the head of the queue
PutNowaitFront(q, maxsize, item) ==
    IF Full(q, maxsize) THEN q ELSE << item >> \o q

\* Queue.put_nowait inside submit_log's try/except QueueFull: the queue afterwards
PutNowaitOrDrop(q, maxsize, item) ==
    IF Full(q, maxsize) THEN q ELSE Append(q, item)

(***************************************************************************)
(* HybridLogStore.                                                         *)
(***************************************************************************)
\* a variant of get_recent_errors: the cutoff is the clock itself
get_recent_errors_no_window(mem, clock, minutes) ==
    SelectSeq(mem, LAMBDA m : m.error_count >= 1 /\ m.ts > clock)

\* get_recent_errors(minutes): the stored rows with error_count >= 1 whose
\* timestamp is after the cutoff
get_recent_errors(mem, clock, minutes) ==
    SelectSeq(mem, LAMBDA m : m.error_count >= 1 /\ m.ts > clock - minutes)

(***************************************************************************)
(* The remediation history.                                                *)
(***************************************************************************)
\* a variant of AppendBounded: pop() instead of pop(0)
AppendBoundedPopsNewest(history, rec) ==
    LET h == Append(history, rec)
    IN  IF Len(h) > HistoryLimit THEN SubSeq(h, 1, Len(h) - 1) ELSE h

\* append, then "if len(...) > 20: pop(0)"
AppendBounded(history, rec) ==
    LET h == Append(history, rec)
    IN  IF Len(h) > HistoryLimit THEN Tail(h) ELSE h

ZeroStats ==
    [processed |-> 0, errors |-> 0, remediations |-> 0]

\* the coroutines that call the graph, and one that is not inside a call
Callers ==
    { "c1", "c2" }
Idle ==
    [pc |-> "idle", op |-> "none", args |-> << >>]

(***************************************************************************)
(* Initial state: AsyncRCAController.__init__; start() not yet called.     *)
(***************************************************************************)
InitAll(mem, cap) ==
    /\ running = FALSE
    /\ raw_queue = << >>
    /\ action_queue = << >>
    /\ stats = ZeroStats
    /\ remediation_history = << >>
    /\ memory = mem
    /\ now = 0
    /\ pc_ingestion = "new"
    /\ cur_log = None
    /\ pc_analysis = "new"
    /\ recent_errors = 0
    /\ pending = None
    /\ pc_action = "new"
    /\ pc_monitoring = "new"
    /\ start_raised = FALSE
    /\ n_submitted = 0
    /\ dropped = {}
    /\ n_cycles = 0
    /\ n_exec = 0
    /\ exec_since_clear = 0
    /\ graph_edges = << >>
    /\ graph_nodes = << >>
    /\ service_states = << >>
    /\ observations = << >>
    /\ neighbors = None
    /\ n_added = 0
    /\ add_calls = << >>
    /\ verdicts = << >>
    /\ cached_model = FALSE
    /\ n_fits = 0
    /\ failed = {}
    /\ max_edges = cap
    /\ lock = None
    /\ callers = [c \in Callers |-> Idle]

\* a controller over the store mem and a TemporalKnowledgeGraph(max_edges=MaxEdges)
InitWith(mem) ==
    InitAll(mem, MaxEdges)

\* rows a previous run left in the persistent collection: k recent errors
PersistedErrors(k) ==
    [i \in 1..k |-> Metadata(LogEntry(-i, "ERROR", 0))]

\* the store already holds three recent errors
Init ==
    InitWith(PersistedErrors(3))

\* the store is empty
InitEmpty ==
    InitWith(<< >>)

\* the store already holds an error burst
InitBurst ==
    InitWith(PersistedErrors(4))

(***************************************************************************)
(* Lifecycle and the submit API.                                           *)
(***************************************************************************)
\* start(): sets the flag and schedules the four loops
start ==
    /\ pc_ingestion = "new"
    /\ running' = TRUE
    /\ pc_ingestion' = "head"
    /\ pc_analysis' = "head"
    /\ pc_action' = "head"
    /\ pc_monitoring' = "head"
    /\ UNCHANGED << raw_queue, action_queue, stats, remediation_history, memory, now,
                    cur_log, recent_errors, pending, start_raised, n_submitted,
                    dropped, n_cycles, n_exec, exec_since_clear >>
    /\ UNCHANGED << graph_vars, guard_vars, fit_vars, failed >>

\* stop()
\* a stop() that empties both queues
stop_drains ==
    /\ running
    /\ running' = FALSE
    /\ raw_queue' = << >>
    /\ action_queue' = << >>
    /\ UNCHANGED << stats, remediation_history, memory, now,
                    pc_ingestion, cur_log, pc_analysis, recent_errors, pending,
                    pc_action, pc_monitoring, start_raised, n_submitted, dropped,
                    n_cycles, n_exec, exec_since_clear >>
    /\ UNCHANGED << graph_vars, guard_vars, fit_vars, failed >>

\* stop(): clears the flag
stop ==
    /\ running
    /\ running' = FALSE
    /\ UNCHANGED << raw_queue, action_queue, stats, remediation_history, memory, now,
                    pc_ingestion, cur_log, pc_analysis, recent_errors, pending,
                    pc_action, pc_monitoring, start_raised, n_submitted, dropped,
                    n_cycles, n_exec, exec_since_clear >>
    /\ UNCHANGED << graph_vars, guard_vars, fit_vars, failed >>

\* submit_log(log_entry)
submit_log(level, ts, max_submits) ==
    /\ n_submitted < max_submits
    /\ LET log == LogEntry(n_submitted + 1, level, ts)
       IN  /\ raw_queue' = PutNowaitOrDrop(raw_queue, MaxQueueSize, log)
           /\ dropped' = IF Full(raw_queue, MaxQueueSize) THEN dropped \cup {log.id}
                         ELSE dropped
    /\ n_submitted' = n_submitted + 1
    /\ UNCHANGED << running, action_queue, stats, remediation_history, memory, now,
                    pc_ingestion, cur_log, pc_analysis, recent_errors, pending,
                    pc_action, pc_monitoring, start_raised, n_cycles, n_exec,
                    exec_since_clear >>
    /\ UNCHANGED << graph_vars, guard_vars, fit_vars, failed >>


(***************************************************************************)
(* Stage 1: _ingestion_loop and _sync_ingest.                              *)
(***************************************************************************)
ingestion_frame ==
    /\ UNCHANGED << running, action_queue, remediation_history, now, pc_analysis,
                 recent_errors, pending, pc_action, pc_monitoring, start_raised,
                 n_submitted, dropped, n_cycles, n_exec, exec_since_clear >>
    /\ UNCHANGED << graph_vars, guard_vars, fit_vars >>

\* "while self._running:"
ingestion_head ==
    /\ pc_ingestion = "head"
    /\ pc_ingestion' = IF running THEN "get" ELSE "done"
    /\ UNCHANGED << raw_queue, stats, memory, cur_log, failed >>
    /\ ingestion_frame

\* a get that hands out the first log and leaves it in the queue
ingestion_get_keeps ==
    /\ pc_ingestion = "get"
    /\ raw_queue # << >>
    /\ cur_log' = Some(Head(raw_queue))
    /\ pc_ingestion' = "exec"
    /\ UNCHANGED << raw_queue, stats, memory, failed >>
    /\ ingestion_frame

\* wait_for(raw_queue.get(), 1.0) returns a log; _sync_ingest goes to the executor
ingestion_get ==
    /\ pc_ingestion = "get"
    /\ raw_queue # << >>
    /\ cur_log' = Some(Head(raw_queue))
    /\ raw_queue' = Tail(raw_queue)
    /\ pc_ingestion' = "exec"
    /\ UNCHANGED << stats, memory, failed >>
    /\ ingestion_frame

\* wait_for(...) raises TimeoutError: continue
ingestion_timeout ==
    /\ pc_ingestion = "get"
    /\ raw_queue = << >>
    /\ pc_ingestion' = "head"
    /\ UNCHANGED << raw_queue, stats, memory, cur_log, failed >>
    /\ ingestion_frame

\* _sync_ingest: encoder.encode and collection.add succeed
sync_ingest_add ==
    /\ pc_ingestion = "exec"
    /\ memory' = Append(memory, Metadata(cur_log[1]))
    /\ pc_ingestion' = "added"
    /\ UNCHANGED << raw_queue, stats, cur_log, failed >>
    /\ ingestion_frame

\* a variant of sync_ingest_fails: the except clause counts the failure
sync_ingest_fails_counted ==
    /\ pc_ingestion = "exec"
    /\ pc_ingestion' = "head"
    /\ cur_log' = None
    /\ stats' = [stats EXCEPT !.errors = @ + 1]
    /\ UNCHANGED << raw_queue, memory, failed >>
    /\ ingestion_frame

\* _sync_ingest: encoder.encode or collection.add raises; the except clause logs it
sync_ingest_fails ==
    /\ pc_ingestion = "exec"
    /\ pc_ingestion' = "head"
    /\ cur_log' = None
    /\ failed' = failed \cup { cur_log[1].id }
    /\ UNCHANGED << raw_queue, stats, memory >>
    /\ ingestion_frame

\* _sync_ingest: self.stats['processed'] += 1, then task_done()
sync_ingest_count ==
    /\ pc_ingestion = "added"
    /\ stats' = [stats EXCEPT !.processed = @ + 1]
    /\ pc_ingestion' = "head"
    /\ cur_log' = None
    /\ UNCHANGED << raw_queue, memory, failed >>
    /\ ingestion_frame

(***************************************************************************)
(* Stage 2: _analysis_loop.  It has no try/except: an exception raised in  *)
(* a cycle ends the coroutine and asyncio.gather hands it to start().      *)
(***************************************************************************)
\* "if len(recent_errors) > 3"
Anomalous(n) ==
    n > AnomalyThreshold

analysis_frame ==
    /\ UNCHANGED << running, raw_queue, stats, remediation_history, memory, now,
                 pc_ingestion, cur_log, pc_action, pc_monitoring, n_submitted,
                 dropped, n_exec, exec_since_clear >>
    /\ UNCHANGED << graph_vars, guard_vars, fit_vars, failed >>

\* "while self._running:" followed by the start of asyncio.sleep(2)
analysis_head(max_cycles, max_backlog) ==
    /\ pc_analysis = "head"
    /\ running => (n_cycles < max_cycles /\ Len(action_queue) <= max_backlog)
    /\ pc_analysis' = IF running THEN "sleep" ELSE "done"
    /\ n_cycles' = IF running THEN n_cycles + 1 ELSE n_cycles
    /\ UNCHANGED << action_queue, recent_errors, pending, start_raised >>
    /\ analysis_frame

\* sleep(2) is over: get_recent_errors(5) goes to the executor
analysis_wake ==
    /\ pc_analysis = "sleep"
    /\ pc_analysis' = "query"
    /\ UNCHANGED << action_queue, recent_errors, pending, start_raised, n_cycles >>
    /\ analysis_frame

\* get_recent_errors returns; "if len(recent_errors) > 3"
analysis_query ==
    /\ pc_analysis = "query"
    /\ recent_errors' = Len(get_recent_errors(memory, now, LookbackMinutes))
    /\ pc_analysis' = IF Anomalous(recent_errors') THEN "context" ELSE "head"
    /\ UNCHANGED << action_queue, pending, start_raised, n_cycles >>
    /\ analysis_frame

\* an exception leaves the loop body: the coroutine ends, start() raises
analysis_raises(at) ==
    /\ pc_analysis = at
    /\ pc_analysis' = "crashed"
    /\ start_raised' = TRUE
    /\ UNCHANGED << action_queue, recent_errors, pending, n_cycles >>
    /\ analysis_frame

\* the store raises inside get_recent_errors
analysis_query_raises ==
    analysis_raises("query")

\* a rebuild condition without the test of the marker and the counter
AlwaysWanted ==
    TRUE

\* "if not hasattr(self, '_cached_model') or self.stats['processed'] % 500 == 0"
RebuildWanted ==
    ~cached_model \/ stats.processed % RebuildPeriod = 0

\* the condition above and "len(all_data) > 100" on the rows now in the store
RebuildDue ==
    RebuildWanted /\ Len(memory) > MinModelRows

\* what the steps of _build_context that deal with the model leave alone
fit_frame ==
    /\ UNCHANGED << running, raw_queue, action_queue, stats, remediation_history, memory,
                    now, pc_ingestion, cur_log, recent_errors, pending, pc_action,
                    pc_monitoring, start_raised, n_submitted, dropped, n_cycles, n_exec,
                    exec_since_clear, failed >>
    /\ UNCHANGED << graph_vars, guard_vars >>

\* _build_context: the condition holds, collection.get() goes to the executor
analysis_fetch ==
    /\ pc_analysis = "context"
    /\ RebuildWanted
    /\ pc_analysis' = "fetch"
    /\ UNCHANGED fit_vars
    /\ fit_frame

\* all_data has no more than 100 rows: no rebuild, _build_context returns
analysis_fetch_small ==
    /\ pc_analysis = "fetch"
    /\ Len(memory) <= MinModelRows
    /\ pc_analysis' = "diagnose"
    /\ UNCHANGED fit_vars
    /\ fit_frame

\* all_data has more than 100 rows: build_model is called in the coroutine
analysis_fit_begin ==
    /\ pc_analysis = "fetch"
    /\ Len(memory) > MinModelRows
    /\ pc_analysis' = "fit"
    /\ UNCHANGED fit_vars
    /\ fit_frame

\* build_model returns: "self._cached_model = True", _build_context returns
analysis_fit_end ==
    /\ pc_analysis = "fit"
    /\ n_fits' = n_fits + 1
    /\ cached_model' = TRUE
    /\ pc_analysis' = "diagnose"
    /\ fit_frame

\* build_model raises
analysis_fit_raises ==
    analysis_raises("fit")

\* _build_context returns
analysis_context ==
    /\ pc_analysis = "context"
    /\ ~RebuildDue
    /\ pc_analysis' = "diagnose"
    /\ UNCHANGED << action_queue, recent_errors, pending, start_raised, n_cycles >>
    /\ analysis_frame

\* causal_engine.build_model raises inside _build_context
analysis_context_raises ==
    analysis_raises("context")

\* the dict built at lines 137-142 from a diagnosis
ActionRequest(d, id) ==
    [type |-> "remediate", action |-> d.recommended_action,
     target |-> d.affected_service, reason |-> d.root_cause, id |-> id]

\* a test that passes only while no request has been made for the incident
ConfidentOnce(d) ==
    /\ d.confidence_score > ConfidenceThreshold
    /\ n_exec = 0 /\ action_queue = << >>

\* a variant of Confident: the threshold itself counts
ConfidentAtThreshold(d) ==
    d.confidence_score >= ConfidenceThreshold

\* "if diagnosis['confidence_score'] > 0.8"
Confident(d) ==
    d.confidence_score > ConfidenceThreshold

\* reading diagnosis[...] raises KeyError
MissingKey(d) ==
    Absent \in { d.recommended_action, d.affected_service, d.root_cause }

\* diagnose returns d
analysis_diagnose(d) ==
    /\ pc_analysis = "diagnose"
    /\ ~(Confident(d) /\ MissingKey(d))
    /\ IF Confident(d)
       THEN /\ pending' = Some(ActionRequest(d, n_cycles))
            /\ pc_analysis' = "put"
       ELSE /\ pending' = None
            /\ pc_analysis' = "head"
    /\ UNCHANGED << action_queue, recent_errors, start_raised, n_cycles >>
    /\ analysis_frame

\* diagnose returns a confident d that lacks a key the request needs
analysis_diagnose_raises(d) ==
    /\ Confident(d) /\ MissingKey(d)
    /\ analysis_raises("diagnose")

\* "await self.action_queue.put(...)": Queue.put waits while the queue is full
analysis_put ==
    /\ pc_analysis = "put"
    /\ ~Full(action_queue, ActionQueueMaxsize)
    /\ action_queue' = Append(action_queue, pending[1])
    /\ pending' = None
    /\ pc_analysis' = "head"
    /\ UNCHANGED << recent_errors, start_raised, n_cycles >>
    /\ analysis_frame

(***************************************************************************)
(* Stage 3: _action_loop.                                                  *)
(***************************************************************************)
action_frame ==
    /\ UNCHANGED << running, raw_queue, memory, now, pc_ingestion, cur_log,
                 pc_analysis, recent_errors, pending, pc_monitoring, start_raised,
                 n_submitted, dropped, n_cycles >>
    /\ UNCHANGED << graph_vars, guard_vars, fit_vars, failed >>

\* the record appended to remediation_history; n is its rank among all executions
RemediationRecord(action, clock, n) ==
    [timestamp |-> clock, action |-> action.action, target |-> action.target,
     reason |-> action.reason, req |-> action.id, n |-> n]

action_head ==
    /\ pc_action = "head"
    /\ pc_action' = IF running THEN "get" ELSE "done"
    /\ UNCHANGED << action_queue, stats, remediation_history, n_exec, exec_since_clear >>
    /\ action_frame

\* a loop body that runs the remediate branch twice
ExecuteTwice(action, st, history, clock, n) ==
    IF action.type = "remediate"
    THEN [stats |-> [st EXCEPT !.remediations = @ + 2],
          history |-> AppendBounded(AppendBounded(history,
                                                  RemediationRecord(action, clock, n)),
                                    RemediationRecord(action, clock, n)),
          executed |-> TRUE]
    ELSE [stats |-> st, history |-> history, executed |-> FALSE]

\* what the loop body does to (stats, history) with the action it got
Execute(action, st, history, clock, n) ==
    IF action.type = "remediate"
    THEN [stats |-> [st EXCEPT !.remediations = @ + 1],
          history |-> AppendBounded(history, RemediationRecord(action, clock, n)),
          executed |-> TRUE]
    ELSE [stats |-> st, history |-> history, executed |-> FALSE]

\* wait_for(action_queue.get(), 1.0) returns an action; the body runs to task_done()
action_get ==
    /\ pc_action = "get"
    /\ action_queue # << >>
    /\ LET r == Execute(Head(action_queue), stats, remediation_history, now, n_exec + 1)
       IN  /\ stats' = r.stats
           /\ remediation_history' = r.history
           /\ n_exec' = IF r.executed THEN n_exec + 1 ELSE n_exec
           /\ exec_since_clear' = IF r.executed THEN exec_since_clear + 1
                                  ELSE exec_since_clear
    /\ action_queue' = Tail(action_queue)
    /\ pc_action' = "head"
    /\ action_frame

action_timeout ==
    /\ pc_action = "get"
    /\ action_queue = << >>
    /\ pc_action' = "head"
    /\ UNCHANGED << action_queue, stats, remediation_history, n_exec, exec_since_clear >>
    /\ action_frame

(***************************************************************************)
(* Stage 4: _monitoring_loop.                                              *)
(***************************************************************************)
monitoring_frame ==
    /\ UNCHANGED << running, raw_queue, action_queue, stats, remediation_history,
                 memory, now, pc_ingestion, cur_log, pc_analysis, recent_errors,
                 pending, pc_action, start_raised, n_submitted, dropped, n_cycles,
                 n_exec, exec_since_clear >>
    /\ UNCHANGED << graph_vars, guard_vars, fit_vars, failed >>

\* "while self._running:" followed by the start of asyncio.sleep(10)
monitoring_head ==
    /\ pc_monitoring = "head"
    /\ pc_monitoring' = IF running THEN "sleep" ELSE "done"
    /\ monitoring_frame

\* sleep(10) is over: logger.info(STATS)
monitoring_emit ==
    /\ pc_monitoring = "sleep"
    /\ pc_monitoring' = "head"
    /\ monitoring_frame

(***************************************************************************)
(* HTTP handlers of server.py that write controller state.                 *)
(***************************************************************************)
\* a DELETE /remediations that resets the counters as well
clear_remediations_resets ==
    /\ remediation_history' = << >>
    /\ exec_since_clear' = 0
    /\ stats' = ZeroStats
    /\ UNCHANGED << running, raw_queue, action_queue, memory, now,
                    pc_ingestion, cur_log, pc_analysis, recent_errors, pending,
                    pc_action, pc_monitoring, start_raised, n_submitted, dropped,
                    n_cycles, n_exec >>
    /\ UNCHANGED << graph_vars, guard_vars, fit_vars, failed >>

\* DELETE /remediations
clear_remediations ==
    /\ remediation_history' = << >>
    /\ exec_since_clear' = 0
    /\ UNCHANGED << running, raw_queue, action_queue, stats, memory, now,
                    pc_ingestion, cur_log, pc_analysis, recent_errors, pending,
                    pc_action, pc_monitoring, start_raised, n_submitted, dropped,
                    n_cycles, n_exec >>
    /\ UNCHANGED << graph_vars, guard_vars, fit_vars, failed >>

\* a DELETE /memory that drains raw_queue as well
clear_memory_drains(wiped) ==
    /\ memory' = IF wiped THEN << >> ELSE memory
    /\ stats' = ZeroStats
    /\ remediation_history' = << >>
    /\ exec_since_clear' = 0
    /\ raw_queue' = << >>
    /\ UNCHANGED << running, action_queue, now, pc_ingestion, cur_log,
                    pc_analysis, recent_errors, pending, pc_action, pc_monitoring,
                    start_raised, n_submitted, dropped, n_cycles, n_exec >>
    /\ UNCHANGED << graph_vars, guard_vars, fit_vars, failed >>

\* DELETE /memory; wiped is FALSE when the store raised and "except: pass" hid it
clear_memory(wiped) ==
    /\ memory' = IF wiped THEN << >> ELSE memory
    /\ stats' = ZeroStats
    /\ remediation_history' = << >>
    /\ exec_since_clear' = 0
    /\ UNCHANGED << running, raw_queue, action_queue, now, pc_ingestion, cur_log,
                    pc_analysis, recent_errors, pending, pc_action, pc_monitoring,
                    start_raised, n_submitted, dropped, n_cycles, n_exec >>
    /\ UNCHANGED << graph_vars, guard_vars, fit_vars, failed >>

(***************************************************************************)
(* TemporalKnowledgeGraph.  Every method holds self._lock from its first   *)
(* statement to its last, so every method is one action.  A dict is a      *)
(* function on its keys; time.time() is the reading handed to the action.  *)
(***************************************************************************)
Abs(x) ==
    IF x < 0 THEN -x ELSE x

\* deque.appendleft instead of deque.append
DequeAppendLeft(d, x, maxlen) ==
    IF maxlen = 0 THEN d
    ELSE IF Len(d) >= maxlen THEN << x >> \o SubSeq(d, 1, Len(d) - 1)
    ELSE << x >> \o d

\* an insertion that keeps the index ordered by timestamp
RECURSIVE InsertSorted(_, _)
InsertSorted(d, x) ==
    IF d = << >> THEN << x >>
    ELSE IF d[Len(d)][1] <= x[1] THEN Append(d, x)
    ELSE Append(InsertSorted(SubSeq(d, 1, Len(d) - 1), x), d[Len(d)])

\* an index that is kept sorted
IndexInsort(index, entry, cap) ==
    IF Len(index) >= cap THEN InsertSorted(Tail(index), entry)
    ELSE InsertSorted(index, entry)

\* a bounded append that refuses the new element when full
DequeAppendDropsNewest(d, x, maxlen) ==
    IF Len(d) >= maxlen THEN d ELSE Append(d, x)

\* deque.append on a deque(maxlen=maxlen)
DequeAppend(d, x, maxlen) ==
    IF maxlen = 0 THEN d
    ELSE IF Len(d) >= maxlen THEN Append(Tail(d), x)
    ELSE Append(d, x)

\* "self.observations.append((timestamp, from_service, to_service))"
IndexAppend(index, entry, cap) ==
    DequeAppend(index, entry, cap)

\* dict d after d[k] = v
DictSet(d, k, v) ==
    [x \in DOMAIN d \cup { k } |-> IF x = k THEN v ELSE d[x]]

\* the dict appended to an edge's deque
Observation(timestamp, latency_ms, cpu_percent, memory_percent) ==
    [timestamp |-> timestamp, latency_ms |-> latency_ms,
     cpu_from |-> cpu_percent, mem_from |-> memory_percent]

\* the 'observations' deque of edge e, empty when the graph has no such edge
EdgeObs(edges, e) ==
    IF e \in DOMAIN edges THEN edges[e] ELSE << >>

\* add_observation(from_service, to_service, latency_ms, timestamp, cpu_percent,
\* memory_percent)
add_observation(from_service, to_service, latency_ms, timestamp, cpu_percent, memory_percent, max_adds) ==
    /\ n_added < max_adds
    /\ n_added' = n_added + 1
    /\ add_calls' = Append(add_calls, [from_service |-> from_service, to_service |-> to_service,
                                       obs |-> Observation(timestamp, latency_ms,
                                                           cpu_percent, memory_percent)])
    /\ graph_edges' =
           LET e == << from_service, to_service >>
               obs == Observation(timestamp, latency_ms, cpu_percent, memory_percent)
           IN  DictSet(graph_edges, e, DequeAppend(EdgeObs(graph_edges, e), obs, EdgeMaxlen))
    /\ observations' =
           IndexAppend(observations, << timestamp, from_service, to_service >>, max_edges)
    /\ LET state == [current_cpu |-> cpu_percent, current_memory |-> memory_percent,
                     last_updated |-> timestamp]
           \* nodes after add_edge: a new node has no attributes
           attrs(n) == IF n \in DOMAIN graph_nodes THEN graph_nodes[n] ELSE None
           added == [n \in DOMAIN graph_nodes \cup { from_service, to_service } |-> attrs(n)]
       IN  IF cpu_percent # None
           THEN /\ service_states' = DictSet(service_states, from_service, state)
                /\ graph_nodes' = DictSet(added, from_service, Some(state))
           ELSE /\ service_states' = service_states
                /\ graph_nodes' = added
    /\ neighbors' = None
    /\ UNCHANGED << max_edges, lock_vars, ctl_vars, guard_vars >>

\* bisect_left(a, x, key=lambda x: x[0]) with 0-based lo and hi
RECURSIVE bisect_left(_, _, _, _)
bisect_left(a, x, lo, hi) ==
    IF lo < hi
    THEN LET mid == (lo + hi) \div 2
         IN  IF a[mid + 1][1] < x
             THEN bisect_left(a, x, mid + 1, hi)
             ELSE bisect_left(a, x, lo, mid)
    ELSE lo

\* a resolution by the exact timestamp
ExactMatch(edge_obs, ts) ==
    LET hits == { i \in 1..Len(edge_obs) : edge_obs[i].timestamp = ts }
    IN  IF hits = {} THEN << >>
        ELSE << edge_obs[CHOOSE i \in hits : \A j \in hits : i <= j] >>

\* a resolution that rebuilds the observation from the index entry
FirstMatchRebuilt(edge_obs, ts) ==
    IF edge_obs = << >> THEN << >> ELSE << Observation(ts, 0, None, None) >>

\* "for obs in edge_obs: if abs(obs['timestamp'] - ts) < 0.001: ...; break"
FirstMatch(edge_obs, ts) ==
    LET hits == { i \in 1..Len(edge_obs) : Abs(edge_obs[i].timestamp - ts) < Epsilon }
    IN  IF hits = {} THEN << >>
        ELSE << edge_obs[CHOOSE i \in hits : \A j \in hits : i <= j] >>

\* "for ts, u, v in recent_obs: ..." from the dict upstream on
RECURSIVE Upstream(_, _, _)
Upstream(recent_obs, service, upstream) ==
    IF recent_obs = << >> THEN upstream
    ELSE LET ts == recent_obs[1][1]
             u == recent_obs[1][2]
             v == recent_obs[1][3]
             keyed == IF u \in DOMAIN upstream THEN upstream ELSE DictSet(upstream, u, << >>)
             found == FirstMatch(EdgeObs(graph_edges, << u, v >>), ts)
         IN  Upstream(Tail(recent_obs), service,
                      IF v = service THEN DictSet(keyed, u, keyed[u] \o found)
                      ELSE upstream)

\* what get_causal_neighbors(service, time_window_seconds, current_time) returns
CausalNeighbors(service, time_window_seconds, current_time) ==
    LET cutoff == current_time - time_window_seconds
        obs_list == observations
        idx == bisect_left(obs_list, cutoff, 0, Len(obs_list))
    IN  IF obs_list = << >> THEN << >>
        ELSE Upstream(SubSeq(obs_list, idx + 1, Len(obs_list)), service, << >>)

\* get_causal_neighbors(service, time_window_seconds, current_time)
get_causal_neighbors(service, time_window_seconds, current_time) ==
    /\ neighbors' = Some([service |-> service,
                          time_window_seconds |-> time_window_seconds,
                          current_time |-> current_time,
                          upstream |-> CausalNeighbors(service, time_window_seconds,
                                                       current_time)])
    /\ UNCHANGED << graph_edges, graph_nodes, service_states, observations, n_added,
                    add_calls, max_edges, lock_vars, ctl_vars, guard_vars >>

\* a prune that also drops the old entries of the index
prune_index_too(max_age_seconds, clock) ==
    /\ LET cutoff == clock - max_age_seconds
           new_obs(e) == SelectSeq(graph_edges[e], LAMBDA o : o.timestamp > cutoff)
           edges_to_remove == { e \in DOMAIN graph_edges : Len(new_obs(e)) = 0 }
       IN  /\ graph_edges' = [e \in DOMAIN graph_edges \ edges_to_remove |-> new_obs(e)]
           /\ observations' = SelectSeq(observations, LAMBDA entry : entry[1] > cutoff)
    /\ neighbors' = None
    /\ UNCHANGED << graph_nodes, service_states, n_added, add_calls,
                    max_edges, lock_vars, ctl_vars, guard_vars >>

\* prune_old_edges(max_age_seconds) when time.time() reads clock
prune_old_edges(max_age_seconds, clock) ==
    /\ LET cutoff == clock - max_age_seconds
           new_obs(e) == SelectSeq(graph_edges[e], LAMBDA o : o.timestamp > cutoff)
           edges_to_remove == { e \in DOMAIN graph_edges : Len(new_obs(e)) = 0 }
       IN  graph_edges' = [e \in DOMAIN graph_edges \ edges_to_remove |-> new_obs(e)]
    /\ neighbors' = None
    /\ UNCHANGED << graph_nodes, service_states, observations, n_added, add_calls,
                    max_edges, lock_vars, ctl_vars, guard_vars >>

(***************************************************************************)
(* The same three methods statement by statement, for callers that contend *)
(* for self._lock.  "async with self._lock" lets a caller in when the lock *)
(* is free and releases the lock when the body is left.                    *)
(***************************************************************************)
\* a lock that is never seen as taken
NeverLocked(l) ==
    FALSE

\* asyncio.Lock.locked()
Locked(l) ==
    l # None

\* caller c moves on to position pc of its call
Goto(c, pc) ==
    callers' = [callers EXCEPT ![c].pc = pc]

\* caller c leaves the "async with" block
Release(c) ==
    /\ callers' = [callers EXCEPT ![c] = Idle]
    /\ lock' = None

\* "async with self._lock:" of the method op called with args
lock_enter(c, op, args) ==
    /\ callers[c].pc = "idle"
    /\ ~Locked(lock)
    /\ lock' = Some(c)
    /\ callers' = [callers EXCEPT ![c] = [pc |-> CASE op = "add" -> "ring"
                                                   [] op = "query" -> "read"
                                                   [] OTHER -> "filter",
                                          op |-> op, args |-> args]]
    /\ UNCHANGED << graph_edges, graph_nodes, service_states, observations, neighbors,
                    n_added, add_calls, max_edges, ctl_vars, guard_vars >>

\* add_observation, lines 50-60: add_edge and the append to the edge's deque
add_ring(c) ==
    /\ callers[c].pc = "ring"
    /\ LET a == callers[c].args
           e == << a.from_service, a.to_service >>
       IN  /\ graph_edges' = DictSet(graph_edges, e,
                                     DequeAppend(EdgeObs(graph_edges, e), a.obs, EdgeMaxlen))
           /\ graph_nodes' = [n \in DOMAIN graph_nodes \cup { e[1], e[2] } |->
                                 IF n \in DOMAIN graph_nodes THEN graph_nodes[n] ELSE None]
    /\ Goto(c, "index")
    /\ UNCHANGED << service_states, observations, neighbors, n_added, add_calls,
                    max_edges, lock, ctl_vars, guard_vars >>

\* add_observation, line 65: the append to the global index
add_index(c) ==
    /\ callers[c].pc = "index"
    /\ LET a == callers[c].args
       IN  observations' = IndexAppend(observations,
                                       << a.obs.timestamp, a.from_service, a.to_service >>,
                                       max_edges)
    /\ Goto(c, "state")
    /\ UNCHANGED << graph_edges, graph_nodes, service_states, neighbors, n_added,
                    add_calls, max_edges, lock, ctl_vars, guard_vars >>

\* add_observation, lines 68-80: the cached state of the source, then the release
add_state(c) ==
    /\ callers[c].pc = "state"
    /\ LET a == callers[c].args
           state == [current_cpu |-> a.obs.cpu_from, current_memory |-> a.obs.mem_from,
                     last_updated |-> a.obs.timestamp]
       IN  /\ IF a.obs.cpu_from # None
              THEN /\ service_states' = DictSet(service_states, a.from_service, state)
                   /\ graph_nodes' = DictSet(graph_nodes, a.from_service, Some(state))
              ELSE UNCHANGED << service_states, graph_nodes >>
           /\ add_calls' = Append(add_calls, a)
    /\ n_added' = n_added + 1
    /\ neighbors' = None
    /\ Release(c)
    /\ UNCHANGED << graph_edges, observations, max_edges, ctl_vars, guard_vars >>

\* get_causal_neighbors, lines 93-130: the whole body reads, then the release
query_read(c) ==
    /\ callers[c].pc = "read"
    /\ LET a == callers[c].args
       IN  neighbors' = Some([service |-> a.service,
                              time_window_seconds |-> a.time_window_seconds,
                              current_time |-> a.current_time,
                              upstream |-> CausalNeighbors(a.service, a.time_window_seconds,
                                                           a.current_time)])
    /\ Release(c)
    /\ UNCHANGED << graph_edges, graph_nodes, service_states, observations, n_added,
                    add_calls, max_edges, ctl_vars, guard_vars >>

\* prune_old_edges, lines 148-158: the loop that replaces the deques
prune_filter(c) ==
    /\ callers[c].pc = "filter"
    /\ LET cutoff == callers[c].args.cutoff
           new_obs(e) == SelectSeq(graph_edges[e], LAMBDA o : o.timestamp > cutoff)
       IN  graph_edges' = [e \in DOMAIN graph_edges |->
                              IF Len(new_obs(e)) = 0 THEN graph_edges[e] ELSE new_obs(e)]
    /\ Goto(c, "remove")
    /\ UNCHANGED << graph_nodes, service_states, observations, neighbors, n_added,
                    add_calls, max_edges, lock, ctl_vars, guard_vars >>

\* prune_old_edges, line 160: remove_edges_from, then the release
prune_remove(c) ==
    /\ callers[c].pc = "remove"
    /\ LET cutoff == callers[c].args.cutoff
           edges_to_remove == { e \in DOMAIN graph_edges :
                                    \A i \in 1..Len(graph_edges[e]) :
                                        graph_edges[e][i].timestamp <= cutoff }
       IN  graph_edges' = [e \in DOMAIN graph_edges \ edges_to_remove |-> graph_edges[e]]
    /\ neighbors' = None
    /\ Release(c)
    /\ UNCHANGED << graph_nodes, service_states, observations, n_added, add_calls,
                    max_edges, ctl_vars, guard_vars >>

(***************************************************************************)
(* The pipeline under external submitters and the HTTP handlers.           *)
(***************************************************************************)
Timestamps ==
    { now, now - LookbackMinutes }

\* one step of _ingestion_loop while no log has been submitted
IngestionIdle ==
    \/ ingestion_head
    \/ ingestion_timeout

\* one step of _ingestion_loop
IngestionNext ==
    \/ IngestionIdle
    \/ ingestion_get
    \/ sync_ingest_add
    \/ sync_ingest_fails
    \/ sync_ingest_count

\* one step of _analysis_loop, _action_loop or _monitoring_loop
StageNext(max_cycles, max_backlog, diagnoses) ==
    \/ analysis_head(max_cycles, max_backlog)
    \/ analysis_wake
    \/ analysis_query
    \/ analysis_query_raises
    \/ analysis_context
    \/ analysis_context_raises
    \/ \E d \in diagnoses : analysis_diagnose(d)
    \/ \E d \in diagnoses : analysis_diagnose_raises(d)
    \/ analysis_put
    \/ action_head
    \/ action_get
    \/ action_timeout
    \/ monitoring_head
    \/ monitoring_emit

Next ==
    \/ start
    \/ stop
    \/ submit_log("ERROR", now, MaxSubmits)
    \/ clear_remediations
    \/ \E wiped \in BOOLEAN : clear_memory(wiped)
    \/ IngestionNext
    \/ StageNext(MaxCycles, ActionQueueMaxsize, Diagnoses)

Spec ==
    Init /\ [][Next]_vars

(***************************************************************************)
(* Sustained load: the store holds an error burst and every diagnosis is   *)
(* confident, so every cycle has a request to enqueue.                     *)
(***************************************************************************)
NextLoad ==
    \/ start
    \/ stop
    \/ IngestionIdle
    \/ StageNext(MaxLoadCycles, ActionQueueMaxsize, { DiagScale, DiagNoService })

SpecLoad ==
    InitBurst /\ [][NextLoad]_vars

(***************************************************************************)
(* Both queues under pressure: sustained load as above, and a burst of     *)
(* logs that arrives once action_queue has filled up.                      *)
(***************************************************************************)
NextQueues ==
    \/ start
    \/ /\ Full(action_queue, ActionQueueMaxsize)
       /\ submit_log("INFO", now, MaxSubmits)
    \/ IngestionNext
    \/ StageNext(MaxLoadCycles, ActionQueueMaxsize, { DiagScale, DiagNoService })

SpecQueues ==
    InitBurst /\ [][NextQueues]_vars

(***************************************************************************)
(* The threshold scenario: the store holds three recent errors, one more   *)
(* may come in, and the Diagnostician answers with confidence 0.9 or 0.8.  *)
(***************************************************************************)
NextThreshold ==
    \/ start
    \/ submit_log("ERROR", now, MaxThresholdSubmits)
    \/ IngestionNext
    \/ StageNext(MaxThresholdCycles, ActionQueueMaxsize,
                 { DiagScale, DiagAtThreshold, DiagNoService })

SpecThreshold ==
    Init /\ [][NextThreshold]_vars

(***************************************************************************)
(* The degraded scenario: an error burst in the store and an upstream that *)
(* answers, answers with something else than JSON, or fails.               *)
(***************************************************************************)
NextDegraded ==
    \/ start
    \/ IngestionIdle
    \/ StageNext(MaxThresholdCycles, ActionQueueMaxsize,
                 { diagnose(outcome) : outcome \in UpstreamOutcomes })

SpecDegraded ==
    InitBurst /\ [][NextDegraded]_vars

(***************************************************************************)
(* The ordering scenario: logs come in while several requests are on their *)
(* way through action_queue.                                               *)
(***************************************************************************)
NextFifo ==
    \/ start
    \/ submit_log("INFO", now, MaxSubmits)
    \/ IngestionNext
    \/ StageNext(MaxFifoCycles, ActionQueueMaxsize, { DiagScale, DiagNoService })

SpecFifo ==
    InitBurst /\ [][NextFifo]_vars

(***************************************************************************)
(* The causal-model scenario: the store holds 100 error rows, logs come    *)
(* in, and DELETE /memory may reset the counters.  What runs in the        *)
(* coroutines and handlers needs the event loop, which build_model keeps   *)
(* to itself from its call to its return; _sync_ingest runs in a thread of *)
(* the executor.                                                           *)
(***************************************************************************)
LoopFree ==
    pc_analysis # "fit"

loop_submit_log ==
    LoopFree /\ submit_log("ERROR", now, MaxModelSubmits)

loop_ingestion_get ==
    LoopFree /\ ingestion_get

loop_action_get ==
    LoopFree /\ action_get

NextModel ==
    \/ LoopFree /\ start
    \/ loop_submit_log
    \/ LoopFree /\ clear_memory(FALSE)
    \/ LoopFree /\ IngestionIdle
    \/ loop_ingestion_get
    \/ sync_ingest_add
    \/ sync_ingest_fails
    \/ sync_ingest_count
    \/ LoopFree /\ analysis_head(MaxModelCycles, ActionQueueMaxsize)
    \/ LoopFree /\ analysis_wake
    \/ LoopFree /\ analysis_query
    \/ LoopFree /\ analysis_context
    \/ LoopFree /\ analysis_fetch
    \/ LoopFree /\ analysis_fetch_small
    \/ LoopFree /\ analysis_fit_begin
    \/ analysis_fit_end
    \/ analysis_fit_raises
    \/ LoopFree /\ \E d \in { DiagScale, DiagNoService } : analysis_diagnose(d)
    \/ LoopFree /\ \E d \in { DiagScale, DiagNoService } : analysis_diagnose_raises(d)
    \/ LoopFree /\ analysis_put
    \/ LoopFree /\ action_head
    \/ loop_action_get
    \/ LoopFree /\ action_timeout
    \/ LoopFree /\ monitoring_head
    \/ LoopFree /\ monitoring_emit

SpecModel ==
    InitWith(PersistedErrors(MinModelRows)) /\ [][NextModel]_vars

(***************************************************************************)
(* The history scenario: as under load, with the two clear handlers, the   *)
(* action stage keeping up with the analysis stage.                        *)
(***************************************************************************)
NextHistory ==
    \/ start
    \/ clear_remediations
    \/ \E wiped \in BOOLEAN : clear_memory(wiped)
    \/ IngestionIdle
    \/ StageNext(MaxHistoryCycles, MaxBacklog, { DiagScale, DiagNoService })

SpecHistory ==
    InitBurst /\ [][NextHistory]_vars

(***************************************************************************)
(* The incident scenario: an empty store, logs of both levels, fresh and   *)
(* stale, and a Diagnostician that answers with confidence 0.9.            *)
(***************************************************************************)
NextIncident ==
    \/ start
    \/ \E level \in Levels, ts \in Timestamps : submit_log(level, ts, MaxIncidentSubmits)
    \/ IngestionNext
    \/ StageNext(MaxCycles, ActionQueueMaxsize, { DiagScale, DiagNoService })

SpecIncident ==
    InitEmpty /\ [][NextIncident]_vars

(***************************************************************************)
(* The graph under a caller that submits its observations in               *)
(* non-decreasing timestamp order, the k-th of them with latency 10 k ms.  *)
(***************************************************************************)
Services ==
    { "A", "B", "C" }
ObservedEdges ==
    { << "A", "B" >>, << "C", "B" >>, << "B", "A" >> }
\* the services get_causal_neighbors is asked about
Targets ==
    { "A", "B" }
Times ==
    0..MaxTime
\* time_window_seconds and max_age_seconds of one call
Windows ==
    { 1, 2 }
\* cpu_percent and memory_percent of one call
Metrics ==
    { << None, None >>, << Some(55), Some(40) >> }

\* the timestamp of the latest add_observation call
LastTimestamp ==
    IF observations = << >> THEN 0 ELSE observations[Len(observations)][1]

NextGraph ==
    \/ \E e \in ObservedEdges, ts \in Times, m \in Metrics :
           /\ ts >= LastTimestamp
           /\ add_observation(e[1], e[2], 10 * (n_added + 1), ts, m[1], m[2], MaxAdds)
    \/ \E service \in Targets, w \in Windows, t \in Times :
           get_causal_neighbors(service, w, t)
    \/ \E age \in Windows, clock \in Times : prune_old_edges(age, clock)

SpecGraph ==
    InitEmpty /\ [][NextGraph]_vars

(***************************************************************************)
(* Two coroutines that call the three methods of one graph at will.        *)
(***************************************************************************)
\* the add_observation calls that have taken the lock or returned
AddsBegun ==
    n_added + Cardinality({ c \in Callers : callers[c].op = "add" })

NextLock ==
    \/ \E c \in Callers, e \in ObservedEdges, ts \in 0..1, m \in Metrics :
           /\ AddsBegun < MaxLockAdds
           /\ lock_enter(c, "add", [from_service |-> e[1], to_service |-> e[2],
                                    obs |-> Observation(ts, 10 * (AddsBegun + 1),
                                                        m[1], m[2])])
    \/ \E c \in Callers, t \in 0..1 :
           lock_enter(c, "query", [service |-> "B", time_window_seconds |-> 1,
                                   current_time |-> t])
    \/ \E c \in Callers, cutoff \in 0..1 : lock_enter(c, "prune", [cutoff |-> cutoff])
    \/ \E c \in Callers : add_ring(c)
    \/ \E c \in Callers : add_index(c)
    \/ \E c \in Callers : add_state(c)
    \/ \E c \in Callers : query_read(c)
    \/ \E c \in Callers : prune_filter(c)
    \/ \E c \in Callers : prune_remove(c)

SpecLock ==
    InitEmpty /\ [][NextLock]_vars

(***************************************************************************)
(* The graph under a caller that submits timestamps in any order.          *)
(***************************************************************************)
UnsortedEdges ==
    { << "A", "B" >>, << "C", "B" >> }
UnsortedTimes ==
    { 0, 4 }

NextUnsorted ==
    \/ \E e \in UnsortedEdges, ts \in UnsortedTimes :
           add_observation(e[1], e[2], 10 * (n_added + 1), ts, None, None, MaxUnsortedAdds)
    \/ get_causal_neighbors("B", 2, 4)

SpecUnsorted ==
    InitAll(<< >>, MaxWideEdges) /\ [][NextUnsorted]_vars

(***************************************************************************)
(* The graph under a caller whose observations carry a CPU value, a memory *)
(* value, both or neither.                                                 *)
(***************************************************************************)
CpuValues ==
    { None, Some(55), Some(70) }
MemoryValues ==
    { None, Some(40) }

NextMetrics ==
    \E e \in ObservedEdges, ts \in Times, cpu \in CpuValues, mem \in MemoryValues :
        /\ ts >= LastTimestamp
        /\ add_observation(e[1], e[2], 10 * (n_added + 1), ts, cpu, mem, MaxAdds)

SpecMetrics ==
    InitEmpty /\ [][NextMetrics]_vars

(***************************************************************************)
(* The graph under one caller that reports the edge A -> B often enough to *)
(* fill its deque, its clock advancing one unit every CallsPerTick calls.  *)
(***************************************************************************)
NextCaps ==
    \/ add_observation("A", "B", 10 * (n_added + 1), n_added \div CallsPerTick,
                       None, None, MaxCapAdds)
    \/ \E w \in Windows : get_causal_neighbors("B", w, MaxTime)
    \/ \E age \in Windows, clock \in Times : prune_old_edges(age, clock)

SpecCaps ==
    InitEmpty /\ [][NextCaps]_vars

(***************************************************************************)
(* Concurrent callers, each reporting its own source service against the   *)
(* common sink.  A call reads the clock and runs add_observation, which    *)
(* holds the lock and awaits nothing inside it, so the calls of different  *)
(* callers interleave call by call.                                        *)
(***************************************************************************)
Writers ==
    { "S0", "S1" }
Sink ==
    "Target"

NextWriters ==
    \/ \E s \in Writers, ts \in Times :
           /\ ts >= LastTimestamp
           /\ Len(EdgeObs(graph_edges, << s, Sink >>)) < MaxWrites
           /\ add_observation(s, Sink, 10 * (n_added + 1), ts, None, None,
                              Cardinality(Writers) * MaxWrites)
    \/ get_causal_neighbors(Sink, MaxTime, MaxTime)

SpecWriters ==
    InitEmpty /\ [][NextWriters]_vars

(***************************************************************************)
(* The concurrent callers together with a periodic prune_old_edges.        *)
(***************************************************************************)
NextSorted ==
    \/ NextWriters
    \/ \E age \in Windows, clock \in Times : prune_old_edges(age, clock)

SpecSorted ==
    InitEmpty /\ [][NextSorted]_vars

(***************************************************************************)
(* The guardrail handed one command: up to MaxTokens words separated by    *)
(* blanks, or one of three command lines.                                  *)
(***************************************************************************)
Vocabulary ==
    { s_delete, s_remove, s_drop, s_restart, s_reboot,
      s_scale, s_edit, s_set, s_annotate, s_label, s_rollout,
      s_kubectl, s_terraform, s_force, s_rm, s_pod, s_Delete, s_reset }

\* " ".join(words)
RECURSIVE Join(_)
Join(words) ==
    IF words = << >> THEN << >>
    ELSE IF Len(words) = 1 THEN words[1]
    ELSE words[1] \o << " " >> \o Join(Tail(words))

kubectl_delete_pod_x ==
    Join(<< s_kubectl, s_delete, s_pod, s_x >>)
kubectl_scale_deployment ==
    Join(<< s_kubectl, s_scale, s_deployment, s_x, s_replicas >>)
rm_rf_slash ==
    Join(<< s_rm, s_rf, s_slash >>)

Commands ==
    { Join(words) : words \in UNION { [1..n -> Vocabulary] : n \in 0..MaxTokens } }
        \cup { kubectl_delete_pod_x, kubectl_scale_deployment, rm_rf_slash }

NextGuard ==
    /\ verdicts = << >>
    /\ \E command \in Commands : validate(command, 1)

SpecGuard ==
    InitEmpty /\ [][NextGuard]_vars

(***************************************************************************)
(* The guardrail called again and again while logs are submitted and       *)
(* observations are added around it.                                       *)
(***************************************************************************)
ComparedCommands ==
    { kubectl_delete_pod_x, kubectl_scale_deployment, rm_rf_slash,
      Join(<< s_kubectl, s_scale, s_force >>) }

NextPure ==
    \/ \E command \in ComparedCommands : validate(command, MaxCompared)
    \/ submit_log("ERROR", now, MaxSubmits)
    \/ add_observation("A", "B", 10 * (n_added + 1), 0, None, None, MaxWrites)

SpecPure ==
    InitEmpty /\ [][NextPure]_vars

(***************************************************************************)
(* Properties.                                                             *)
(***************************************************************************)
\* stop() has been called after start()
Stopped ==
    ~running /\ pc_ingestion # "new"

\* ids of the rows in the store
StoredIds ==
    { memory[i].id : i \in 1..Len(memory) }

\* ids of the logs waiting in raw_queue
QueuedIds ==
    { raw_queue[i].id : i \in 1..Len(raw_queue) }

\* C1, the step of submit: a call of submit_log appends the new log at the
\* tail of raw_queue when the queue holds fewer logs than its capacity, and
\* otherwise leaves the queue, the counters and the store as they are and
\* discards the log.
C1_SubmitStep ==
    n_submitted' # n_submitted =>
        IF Len(raw_queue) < MaxQueueSize
        THEN /\ Len(raw_queue') = Len(raw_queue) + 1
             /\ SubSeq(raw_queue', 1, Len(raw_queue)) = raw_queue
             /\ raw_queue'[Len(raw_queue')].id = n_submitted'
             /\ dropped' = dropped
        ELSE /\ raw_queue' = raw_queue
             /\ stats' = stats
             /\ memory' = memory
             /\ dropped' = dropped \cup {n_submitted'}

\* C1, the discarded logs: a discarded log is never queued, never held by the
\* ingestion stage and never stored, so it is never counted in processed.
C1_DroppedNeverIngested ==
    \A id \in dropped :
        /\ id \notin QueuedIds
        /\ id \notin StoredIds
        /\ cur_log # None => cur_log[1].id # id

\* C1, non-blocking: a call of submit_log can always complete.
C1_SubmitEnabled ==
    n_submitted < MaxSubmits => ENABLED submit_log("ERROR", now, MaxSubmits)

\* C1: submit(event) never blocks and never raises; below capacity the event is
\* appended at the tail of rawQueue; at capacity it is discarded, the queue is
\* unchanged, and the discarded event never makes stats.processed increase.
C1_SubmitDropsWhenFull ==
    /\ [][C1_SubmitStep]_vars
    /\ []C1_DroppedNeverIngested
    /\ []C1_SubmitEnabled

\* C1 witness: a log was appended behind a waiting log, and a later one was
\* discarded at the full queue.
C1_Witness ==
    /\ dropped # {}
    /\ Len(raw_queue) = MaxQueueSize
    /\ MaxQueueSize > 1

\* one step of _analysis_loop under sustained load
AnalysisStepLoad ==
    \/ analysis_head(MaxLoadCycles, ActionQueueMaxsize)
    \/ analysis_wake
    \/ analysis_query
    \/ analysis_context
    \/ \E d \in { DiagScale } : analysis_diagnose(d)
    \/ analysis_put

\* C2: when the analysis stage has an ActionRequest to enqueue and actionQueue
\* is full, the request is dropped and the stage goes on to its next cycle: the
\* analysis stage never waits for space in actionQueue, so whenever it holds a
\* request it can take its next step.
C2_AnalysisNeverWaits ==
    (pc_analysis = "put" /\ Full(action_queue, ActionQueueMaxsize))
        => ENABLED AnalysisStepLoad

\* every stage has left its loop (by the loop condition or by an exception)
AllExited ==
    /\ pc_ingestion = "done"
    /\ pc_analysis \in { "done", "crashed" }
    /\ pc_action = "done"
    /\ pc_monitoring = "done"

\* one step of any stage under sustained load
AnyStageStepLoad ==
    \/ IngestionIdle
    \/ StageNext(MaxLoadCycles, ActionQueueMaxsize, { DiagScale, DiagNoService })

\* C3: after stop(), from any reachable state, each of the four stages
\* eventually exits its loop and start() returns.  Its safety part: after
\* stop(), as long as some stage has not exited, some stage can take a step.
C3_StopTerminates ==
    Stopped => (AllExited \/ ENABLED AnyStageStepLoad)

\* C4: once stop() has set the running flag to false, no stage begins a new
\* unit of work: the ingestion and action stages pop no further item, the
\* analysis stage issues no new recent-errors query and the monitoring stage
\* emits no further snapshot.
C4_NoNewWorkAfterStop ==
    [][ Stopped =>
          /\ ~(pc_ingestion = "get" /\ pc_ingestion' = "exec")
          /\ ~(pc_action = "get" /\ Len(action_queue') < Len(action_queue))
          /\ ~(pc_analysis = "sleep" /\ pc_analysis' = "query")
          /\ ~(pc_monitoring = "sleep" /\ pc_monitoring' = "head") ]_vars

\* C5: an exception raised during one cycle of the analysis stage or of the
\* action stage is confined to that cycle: the stage stays alive and the
\* exception does not propagate out of start().
C5_ExceptionsConfined ==
    /\ pc_analysis # "crashed"
    /\ ~start_raised

\* C6, the failing insert: when the embedding or the insert fails for a popped
\* log, no counter changes, nothing is put back on rawQueue, the store is
\* unchanged and the ingestion stage is back at the head of its loop.
C6_FailStep ==
    (pc_ingestion = "exec" /\ pc_ingestion' # "exec" /\ pc_ingestion' # "added") =>
        /\ stats' = stats
        /\ raw_queue' = raw_queue
        /\ memory' = memory
        /\ running' = running
        /\ pc_ingestion' = "head"

\* C6, the successful insert: the log is stored, and processed then increases
\* by exactly 1 for it; nothing else makes processed increase.
C6_CountStep ==
    /\ (pc_ingestion = "exec" /\ pc_ingestion' = "added") =>
          (memory' = Append(memory, Metadata(cur_log[1])) /\ stats' = stats)
    /\ (pc_ingestion = "added" /\ pc_ingestion' # "added") =>
          (stats'.processed = stats.processed + 1 /\ pc_ingestion' = "head")
    /\ stats'.processed > stats.processed =>
          (pc_ingestion = "added" /\ stats'.processed = stats.processed + 1)

\* C6: in the ingestion stage stats.processed increases by exactly 1 for each
\* popped event whose insert succeeds; if the embedding or insert fails, no
\* counter changes, the event is not put back on rawQueue, and the stage
\* continues with the events that follow.
C6_IngestionCounts ==
    /\ [][C6_FailStep]_vars
    /\ [][C6_CountStep]_vars

\* C6 witness: log 1 was popped and its insert failed (it is neither stored,
\* queued, held nor discarded while the rows before it are still stored), and
\* log 2, which followed it, has been stored and counted.
C6_Witness ==
    /\ memory = PersistedErrors(3) \o << Metadata(LogEntry(2, "ERROR", 0)) >>
    /\ 1 \notin dropped
    /\ 1 \notin QueuedIds
    /\ pc_ingestion = "head"
    /\ stats.processed = 1

\* C7: an ActionRequest whose action string SafetyGuardrail classifies as unsafe
\* is never executed by the action stage: it is never appended to
\* remediationHistory.
C7_UnsafeNeverExecuted ==
    \A i \in 1..Len(remediation_history) :
        validate_command(remediation_history[i].action).is_safe

\* number of stored rows of level ERROR whose timestamp is in the lookback window
ErrorsInWindow ==
    Cardinality({ i \in 1..Len(memory) :
                    memory[i].level = "ERROR" /\ memory[i].ts > now - LookbackMinutes })

\* ids of the requests waiting in action_queue
RequestIds ==
    { action_queue[i].id : i \in 1..Len(action_queue) }

\* C8, the steps of the cycle: a recent-errors query that finds 4 or more ERROR
\* rows in the window is followed by the context and the diagnosis request; a
\* diagnosis of confidence 0.9 yields one remediate request; the stage puts
\* exactly that request at the tail of actionQueue.
C8_CycleSteps ==
    /\ (pc_analysis = "query" /\ pc_analysis' \notin { "query", "crashed" }) =>
          /\ ErrorsInWindow >= 4 => pc_analysis' = "context"
    /\ (pc_analysis = "context" /\ pc_analysis' \notin { "context", "crashed" }) =>
          pc_analysis' = "diagnose"
    /\ (pc_analysis = "diagnose" /\ pc_analysis' \notin { "diagnose", "crashed" }) =>
          /\ pc_analysis' = "put"
          /\ pending' = Some([type |-> "remediate", action |-> s_scale_up,
                         target |-> "payment-db", reason |-> "pool exhaustion",
                         id |-> n_cycles])
          /\ action_queue' = action_queue
    /\ (pc_analysis = "put" /\ pc_analysis' # "put") =>
          /\ action_queue' = Append(action_queue, pending[1])
          /\ pc_analysis' = "head"
    /\ Len(action_queue') > Len(action_queue) => pc_analysis = "put"

C9_HistoryBounded ==
    /\ Len(remediation_history) <= HistoryLimit
    /\ Len(remediation_history) =
          IF exec_since_clear < HistoryLimit THEN exec_since_clear ELSE HistoryLimit
    /\ \A i \in 1..Len(remediation_history) :
          remediation_history[i].n = n_exec - Len(remediation_history) + i

\* C9 witness: 25 remediations were executed and no clear happened; the history
\* holds the 6th to the 25th.
C9_Witness ==
    /\ n_exec = 25
    /\ exec_since_clear = 25
    /\ stats.remediations = 25
    /\ Len(remediation_history) = 20
    /\ remediation_history[1].n = 6
    /\ remediation_history[20].n = 25

\* C10: when add_observation is called in non-decreasing timestamp order, every
\* observation get_causal_neighbors(svc, w, now) returns lies on an edge whose
\* target is svc and has its timestamp in [now - w, now].
C10_ReturnedInWindow ==
    neighbors # None =>
        LET q == neighbors[1]
        IN  \A u \in DOMAIN q.upstream : \A i \in 1..Len(q.upstream[u]) :
                LET obs == q.upstream[u][i]
                    edge_obs == EdgeObs(graph_edges, << u, q.service >>)
                IN  /\ \E j \in 1..Len(edge_obs) : edge_obs[j] = obs
                    /\ obs.timestamp >= q.current_time - q.time_window_seconds
                    /\ obs.timestamp <= q.current_time

\* the list get_causal_neighbors returned for source u, empty when u is no key
Returned(q, u) ==
    IF u \in DOMAIN q.upstream THEN q.upstream[u] ELSE << >>

\* the observations held on edge (u, q.service) with a timestamp in the window of
\* the query q, in insertion order
InWindow(q, u) ==
    SelectSeq(EdgeObs(graph_edges, << u, q.service >>),
              LAMBDA o : /\ o.timestamp >= q.current_time - q.time_window_seconds
                         /\ o.timestamp <= q.current_time)

\* C11: when add_observation is called in non-decreasing timestamp order,
\* get_causal_neighbors(svc, w, now) returns, per source service and in insertion
\* order, exactly the observations targeting svc with a timestamp in
\* [now - w, now], each of them once and none missing.
C11_ReturnsExactlyWindow ==
    neighbors # None =>
        \A u \in Services : Returned(neighbors[1], u) = InWindow(neighbors[1], u)

\* the last n elements of the sequence q, all of q when it has no more than n
Suffix(q, n) ==
    IF Len(q) <= n THEN q ELSE SubSeq(q, Len(q) - n + 1, Len(q))

\* the observations add_observation was handed for edge e, in call order
CallsOn(e) ==
    LET on == SelectSeq(add_calls, LAMBDA c : << c.from_service, c.to_service >> = e)
    IN  [i \in 1..Len(on) |-> on[i].obs]

\* the index entries of all add_observation calls, in call order
CallsIndex ==
    [i \in 1..Len(add_calls) |->
        << add_calls[i].obs.timestamp, add_calls[i].from_service, add_calls[i].to_service >>]

\* both structures are within their caps and hold the latest entries in call order
C12_Capped ==
    /\ Len(observations) <= MaxEdges
    /\ observations = Suffix(CallsIndex, MaxEdges)
    /\ \A e \in DOMAIN graph_edges :
           /\ Len(graph_edges[e]) <= EdgeMaxlen
           /\ \E n \in 1..EdgeMaxlen : graph_edges[e] = Suffix(CallsOn(e), n)

\* a call of add_observation appends its entry and, at a cap, drops the oldest one
C12_AddStep ==
    n_added' = n_added + 1 =>
        LET c == add_calls'[Len(add_calls')]
            e == << c.from_service, c.to_service >>
        IN  /\ graph_edges'[e] = Suffix(Append(EdgeObs(graph_edges, e), c.obs), EdgeMaxlen)
            /\ observations' = Suffix(Append(observations, CallsIndex'[Len(add_calls')]),
                                      MaxEdges)

NotOlder(e, cutoff) ==
    SelectSeq(graph_edges[e], LAMBDA o : o.timestamp >= cutoff)

\* a step of prune_old_edges removes exactly the edges with none but older
\* observations and leaves every other edge those that are not older
C13_PruneStep ==
    \A age \in Windows, clock \in Times :
        prune_old_edges(age, clock) =>
            /\ DOMAIN graph_edges' \subseteq DOMAIN graph_edges
            /\ \A e \in DOMAIN graph_edges :
                   /\ e \notin DOMAIN graph_edges' <=> NotOlder(e, clock - age) = << >>
                   /\ e \in DOMAIN graph_edges' =>
                          graph_edges'[e] = NotOlder(e, clock - age)

\* C13: prune_old_edges(max_age) removes an edge if and only if every one of its
\* observations has a timestamp strictly below now - max_age; an edge that is kept
\* holds afterwards exactly its observations at or above that cutoff, in order.
C13_PruneKeepsNotOlder ==
    [][C13_PruneStep]_vars

\* the callers that have made a call, and whether all of them made as many
ActiveWriters ==
    { s \in Writers : CallsOn(<< s, Sink >>) # << >> }
EqualShares ==
    \A s, t \in ActiveWriters : Len(CallsOn(<< s, Sink >>)) = Len(CallsOn(<< t, Sink >>))

\* C14: N concurrent callers that each made M add_observation calls from their own
\* source to one sink leave exactly N * M observations reachable through
\* get_causal_neighbors on the sink with a window that covers them all: none is lost.
C14_NoObservationLost ==
    (neighbors # None /\ EqualShares) =>
        /\ \A s \in Writers : \A i \in 1..Len(CallsOn(<< s, Sink >>)) :
               \E j \in 1..Len(Returned(neighbors[1], s)) :
                   Returned(neighbors[1], s)[j] = CallsOn(<< s, Sink >>)[i]
        /\ \A s \in Writers :
               Len(Returned(neighbors[1], s)) = Len(CallsOn(<< s, Sink >>))

\* the forbidden verbs that occur in the lower-cased command
ForbiddenIn(command) ==
    { i \in 1..Len(FORBIDDEN_VERBS) : Contains(Lower(command), FORBIDDEN_VERBS[i]) }

\* the entries of an issue list with the given severity
IssuesOf(result, severity) ==
    SelectSeq(result.issues, LAMBDA issue : issue.severity = severity)

\* C15: validate_command of any command that contains a forbidden verb (as a
\* case-insensitive substring) returns is_safe = False, security_score 0 and a
\* CRITICAL issue naming that verb; "kubectl scale deployment x --replicas=3"
\* gets is_safe = True, security_score 100 and no issue at all.
C15_ForbiddenVerbBlocked ==
    \A k \in 1..Len(verdicts) :
        LET v == verdicts[k]
        IN  /\ \A i \in ForbiddenIn(v.command) :
                   /\ ~v.result.is_safe
                   /\ v.result.security_score = 0
                   /\ \E n \in 1..Len(v.result.issues) :
                          v.result.issues[n] = Issue("CRITICAL", FORBIDDEN_VERBS[i])
            /\ v.command = kubectl_scale_deployment =>
                   /\ v.result.is_safe
                   /\ v.result.security_score = 100
                   /\ v.result.issues = << >>

\* "kubectl delete pod x" has been validated
C15_Witness ==
    /\ verdicts # << >>
    /\ verdicts[1].command = kubectl_delete_pod_x
    /\ ~verdicts[1].result.is_safe
    /\ verdicts[1].result.issues = << Issue("CRITICAL", s_delete) >>

\* C16: validate_command("rm -rf /") returns is_safe = False.
C16_RmRfBlocked ==
    \A k \in 1..Len(verdicts) :
        verdicts[k].command = rm_rf_slash => ~verdicts[k].result.is_safe

\* calls with the same command returned the same dict
C17_SameVerdict ==
    \A i, j \in 1..Len(verdicts) :
        verdicts[i].command = verdicts[j].command => verdicts[i].result = verdicts[j].result

\* a call of validate_command leaves the controller and the graph as they were
C17_NoEffect ==
    verdicts' # verdicts => UNCHANGED << ctl_vars, graph_vars >>

C18_QueuesBounded ==
    /\ Len(raw_queue) <= MaxQueueSize
    /\ Len(action_queue) <= ActionQueueMaxsize

\* both queues are full, a log has been dropped and a request waits for a slot
C18_Witness ==
    /\ Len(raw_queue) = MaxQueueSize
    /\ dropped # {}
    /\ Len(action_queue) = ActionQueueMaxsize
    /\ pc_analysis = "put"

\* the two values of simulated_outcome
OutcomeOf(is_safe) ==
    IF is_safe THEN "Command would update resource specifications."
    ELSE "Command execution HALTED by Safety Policy."

\* the lower-cased command has none of the whitelisted verbs
NoSafeVerb(command) ==
    \A i \in 1..Len(SAFE_VERBS) : ~Contains(Lower(command), SAFE_VERBS[i])

\* C19: validate_command returns is_safe = False exactly when a forbidden verb or
\* --force occurs in the lower-cased command; a missing kubectl/terraform prefix or
\* a missing whitelisted verb alone never does; simulated_outcome follows is_safe.
C19_UnsafeIffVerbOrForce ==
    \A n \in 1..Len(verdicts) :
        LET v == verdicts[n]
        IN  /\ ~v.result.is_safe <=>
                   (ForbiddenIn(v.command) # {} \/ Contains(Lower(v.command), s_force))
            /\ v.result.simulated_outcome = OutcomeOf(v.result.is_safe)

\* a command without prefix and without whitelisted verb has been found safe
C19_Witness ==
    /\ verdicts # << >>
    /\ verdicts[1].command = s_pod
    /\ PrefixMissing(Lower(s_pod)) /\ NoSafeVerb(s_pod)
    /\ verdicts[1].result.is_safe
    /\ Len(verdicts[1].result.issues) = 2

\* 1 when the condition holds, else 0
Bit(b) ==
    IF b THEN 1 ELSE 0

\* C20: security_score is max(0, 100 - 100 k - 20 p - 50 f - 30 w) for k distinct
\* forbidden verbs, p = no kubectl/terraform prefix, f = --force present, w = still
\* safe and no whitelisted verb; it lies in 0..100, an unsafe command never gets the
\* whitelist warning, and there are k + f CRITICAL and p + w WARNING issues.
C20_ScoreFormula ==
    \A n \in 1..Len(verdicts) :
        LET v == verdicts[n]
            lower == Lower(v.command)
            k == Cardinality(ForbiddenIn(v.command))
            p == Bit(~(StartsWith(lower, s_kubectl) \/ StartsWith(lower, s_terraform)))
            f == Bit(Contains(lower, s_force))
            w == Bit(k = 0 /\ f = 0 /\ NoSafeVerb(v.command))
            raw == 100 - 100 * k - 20 * p - 50 * f - 30 * w
        IN  /\ v.result.security_score = (IF raw > 0 THEN raw ELSE 0)
            /\ v.result.security_score \in 0..100
            /\ ~v.result.is_safe => w = 0
            /\ Len(IssuesOf(v.result, "CRITICAL")) = k + f
            /\ Len(IssuesOf(v.result, "WARNING")) = p + w
            /\ Len(v.result.issues) = k + f + p + w

\* a command with two forbidden verbs, no prefix and --force: the sum is below 0
C20_Witness ==
    /\ verdicts # << >>
    /\ verdicts[1].command = Join(<< s_delete, s_drop, s_force >>)
    /\ verdicts[1].result.security_score = 0
    /\ Len(verdicts[1].result.issues) = 4

\* the ids of the requests in action_queue and of those already executed
KnownRequestIds ==
    { action_queue[i].id : i \in 1..Len(action_queue) }
        \cup { remediation_history[i].req : i \in 1..Len(remediation_history) }

\* a cycle is past "if len(recent_errors) > 3" only with more than 3 errors
C21_PastThreshold ==
    pc_analysis \in { "context", "diagnose", "put" } => recent_errors > 3

\* a diagnosis of confidence 0.8 or less enqueues nothing; an enqueue is the one
\* request of the running cycle, which has seen more than 3 errors
C21_Step ==
    /\ \A d \in Diagnoses :
           (d.confidence_score <= 80 /\ analysis_diagnose(d)) =>
               (pending' = None /\ action_queue' = action_queue /\ pc_analysis' = "head")
    /\ Len(action_queue') > Len(action_queue) =>
           /\ recent_errors > 3
           /\ action_queue' = Append(action_queue, pending[1])
           /\ pending[1].id = n_cycles
           /\ n_cycles \notin KnownRequestIds

\* C21: a cycle asks for a diagnosis only with more than 3 recent errors and
\* enqueues a request only for a confidence above 0.8; exactly 3 errors or a
\* confidence of exactly 0.8 enqueue nothing, and a cycle enqueues at most once.
C21_StrictThresholds ==
    []C21_PastThreshold /\ [][C21_Step]_vars

\* the second cycle saw 4 errors, got an answer, and nothing has been enqueued
C21_Witness ==
    /\ n_cycles = 2
    /\ recent_errors = 4
    /\ pc_analysis = "head"
    /\ action_queue = << >>
    /\ n_exec = 0
    /\ ~start_raised

\* both diagnose methods turn a failed upstream call into a low-confidence
\* page_human result
C22_Degraded ==
    \A outcome \in FailedOutcomes :
        /\ diagnose(outcome).confidence_score <= 10
        /\ diagnose(outcome).recommended_action = s_page_human
        /\ groq_diagnose(outcome).confidence_score <= 10
        /\ groq_diagnose(outcome).recommended_action = s_page_human

\* the cycle that receives such a result goes back to the head of the loop
C22_Step ==
    \A outcome \in FailedOutcomes :
        analysis_diagnose(diagnose(outcome)) =>
            /\ action_queue' = action_queue
            /\ pending' = None
            /\ stats' = stats
            /\ remediation_history' = remediation_history
            /\ pc_analysis' = "head"
            /\ ~start_raised'

\* C22: when the upstream call fails (no connection, rate limit, unparsable
\* answer) diagnose returns confidence at most 0.1 and page_human instead of
\* raising; the cycle that receives it enqueues nothing, leaves stats and
\* remediation_history alone, and the analysis stage goes on to later cycles.
C22_DegradesGracefully ==
    []C22_Degraded /\ [][C22_Step]_vars

\* the first cycle diagnosed an error burst and enqueued nothing; the second runs
C22_Witness ==
    /\ n_cycles = 2
    /\ pc_analysis = "sleep"
    /\ recent_errors = 4
    /\ action_queue = << >>
    /\ n_exec = 0
    /\ ~start_raised

\* ids in the order of the pipeline of stage 1: the rows added to the store
\* by this run, the log in the executor, the logs waiting in raw_queue
IngestionOrder ==
    [i \in 1..Len(SelectSeq(memory, LAMBDA m : m.id > 0)) |-> SelectSeq(memory, LAMBDA m : m.id > 0)[i].id]
        \o [i \in 1..(IF pc_ingestion = "exec" THEN 1 ELSE 0) |-> cur_log[1].id]
        \o [i \in 1..Len(raw_queue) |-> raw_queue[i].id]

\* ids in the order of the pipeline of stage 3: the records of the history,
\* the requests waiting in action_queue, the request the analysis stage is
\* about to put
ActionOrder ==
    [i \in 1..Len(remediation_history) |-> remediation_history[i].req]
        \o [i \in 1..Len(action_queue) |-> action_queue[i].id]
        \o [i \in 1..Len(pending) |-> pending[i].id]

Increasing(ids) ==
    \A i, j \in 1..Len(ids) : i < j => ids[i] < ids[j]

\* C23: the logs submit accepted reach the store in the order submit accepted
\* them (ids are handed out in the order of the calls), and the requests are
\* executed and recorded in remediation_history in the order the analysis
\* stage enqueued them (ids are the numbers of the cycles).
C23_Fifo ==
    /\ Increasing(IngestionOrder)
    /\ Increasing(ActionOrder)
    /\ Increasing([i \in 1..Len(remediation_history) |-> remediation_history[i].n])

\* two logs wait behind a stored one, two requests behind an executed one
C23_Witness ==
    /\ IngestionOrder = << 1, 2, 3 >>
    /\ Len(raw_queue) = 2
    /\ ActionOrder = << 1, 2, 3 >>
    /\ Len(action_queue) = 2
    /\ Len(remediation_history) = 1

\* the step that takes a request from action_queue
Consumes ==
    action_queue # << >> /\ action_queue' = Tail(action_queue)

\* history' is history with rec appended and, beyond 20 records, its oldest
\* record removed
Appended(history, rec, history2) ==
    /\ history2 # << >>
    /\ history2[Len(history2)] = rec
    /\ IF Len(history) < HistoryLimit
       THEN SubSeq(history2, 1, Len(history2) - 1) = history
       ELSE SubSeq(history2, 1, Len(history2) - 1) = Tail(history)

C24_Step ==
    /\ Consumes /\ Head(action_queue).type = "remediate" =>
           /\ stats' = [stats EXCEPT !.remediations = @ + 1]
           /\ n_exec' = n_exec + 1
           /\ \E rec \in { remediation_history'[i] : i \in 1..Len(remediation_history') } :
                  /\ rec.action = Head(action_queue).action
                  /\ rec.target = Head(action_queue).target
                  /\ rec.reason = Head(action_queue).reason
                  /\ rec.req = Head(action_queue).id
                  /\ Appended(remediation_history, rec, remediation_history')
    /\ ~Consumes =>
           /\ stats'.remediations <= stats.remediations
           /\ n_exec' = n_exec
           /\ remediation_history' \in { remediation_history, << >> }
           /\ \A i \in 1..Len(action_queue) : action_queue'[i] = action_queue[i]

\* a request is in the history or in the queue, never both, and never twice;
\* there are no more executions than cycles that could enqueue
C24_Once ==
    /\ \A i, j \in 1..Len(ActionOrder) : i # j => ActionOrder[i] # ActionOrder[j]
    /\ n_exec + Len(action_queue) + Len(pending) <= n_cycles
    /\ \A i \in 1..Len(remediation_history) : remediation_history[i].req \in 1..n_cycles

\* C24: a request put on action_queue is taken off it at most once; taking a
\* remediate request adds exactly 1 to stats.remediations and appends exactly
\* one record with that request's action, target and reason; nothing is
\* executed twice, and no record appears without a request taken off the queue.
C24_ConsumedOnce ==
    []C24_Once /\ [][C24_Step]_vars

\* the 21st request has been executed with the history full and no clear so far
C24_Witness ==
    /\ n_exec = 21
    /\ stats.remediations = 21
    /\ Len(remediation_history) = HistoryLimit
    /\ remediation_history[HistoryLimit].req = 21
    /\ remediation_history[1].req = 2
    /\ pc_action = "head"

\* no counter is lower after the step than before it
CountersKept ==
    /\ stats'.processed >= stats.processed
    /\ stats'.errors >= stats.errors
    /\ stats'.remediations >= stats.remediations

C25_Step ==
    /\ (\E wiped \in BOOLEAN : clear_memory(wiped)) => stats' = ZeroStats
    /\ ~(\E wiped \in BOOLEAN : clear_memory(wiped)) => CountersKept
    /\ clear_remediations => stats' = stats
    /\ n_submitted' # n_submitted => stats' = stats

\* C25: stats.processed and stats.remediations never decrease, except in a
\* DELETE /memory, which sets the three counters to 0; no stage, no submit_log
\* and no DELETE /remediations lowers or resets a counter.
C25_CountersMonotone ==
    [][C25_Step]_vars

\* two logs were stored and counted and one request executed; a DELETE /memory
\* came after the first log and the request, and the second log counted from 0
C25_Witness ==
    /\ stats = [processed |-> 1, errors |-> 0, remediations |-> 0]
    /\ n_exec = 1
    /\ n_submitted = 2
    /\ {1, 2} \subseteq StoredIds
    /\ raw_queue = << >>
    /\ pc_ingestion = "head"

\* what both clear handlers leave alone
QueuesAndFlagKept ==
    /\ raw_queue' = raw_queue
    /\ action_queue' = action_queue
    /\ running' = running

C26_Step ==
    /\ clear_remediations =>
           remediation_history' = << >> /\ stats' = stats /\ QueuesAndFlagKept
    /\ \A wiped \in BOOLEAN :
           clear_memory(wiped) =>
               remediation_history' = << >> /\ stats' = ZeroStats /\ QueuesAndFlagKept
    \* the steps that empty the history or lower a counter are these two
    /\ (remediation_history # << >> /\ remediation_history' = << >>) \/ ~CountersKept =>
           /\ stats' \in { stats, ZeroStats }
           /\ QueuesAndFlagKept
           /\ pc_ingestion' = pc_ingestion /\ pc_analysis' = pc_analysis
           /\ pc_action' = pc_action /\ cur_log' = cur_log /\ pending' = pending

\* C26: DELETE /remediations empties remediation_history and leaves stats,
\* raw_queue, action_queue and the running flag as they are; DELETE /memory
\* sets the three counters to 0, empties remediation_history and leaves
\* raw_queue, action_queue and the running flag as they are, so what is queued
\* is still processed.
C26_ClearFrames ==
    [][C26_Step]_vars

\* a DELETE /memory has wiped store, counters and history after one executed
\* request, while two logs wait in raw_queue of the running controller
C26_Witness ==
    /\ stats = ZeroStats
    /\ remediation_history = << >>
    /\ memory = << >>
    /\ n_exec = 1
    /\ Len(raw_queue) = 2
    /\ running
    /\ pc_ingestion = "get"

\* the services named by an observation that is still held, in the ring of
\* an edge or in the global index
RetainedEndpoints ==
    { e[1] : e \in DOMAIN graph_edges } \cup { e[2] : e \in DOMAIN graph_edges }
        \cup { observations[i][2] : i \in 1..Len(observations) }
        \cup { observations[i][3] : i \in 1..Len(observations) }

\* C27: in every reachable state of the graph, a service is a node if and only
\* if it is the source or the target of an observation that is still retained.
C27_NodesIffRetained ==
    DOMAIN graph_nodes = RetainedEndpoints

\* C28: when add_observation calls arrive in non-decreasing timestamp order,
\* from one caller or from several concurrent ones, the global index is
\* non-decreasing in timestamp in every reachable state, evictions at
\* max_edges and prune_old_edges included.
C28_IndexSorted ==
    \A i, j \in 1..Len(observations) : i < j => observations[i][1] <= observations[j][1]

\* the full index has evicted entries and holds two timestamps from two
\* callers, and a prune has removed an edge
C28_Witness ==
    /\ n_added > MaxEdges
    /\ Len(observations) = MaxEdges
    /\ observations[1][1] < observations[MaxEdges][1]
    /\ observations[1][2] # observations[MaxEdges][2]
    /\ \E i \in 1..Len(observations) :
           << observations[i][2], observations[i][3] >> \notin DOMAIN graph_edges

\* an edge that add_observation was called for and that prune_old_edges removed
PrunedEdges ==
    { << add_calls[i].from_service, add_calls[i].to_service >> : i \in 1..Len(add_calls) }
        \ DOMAIN graph_edges

\* C29: every observation get_causal_neighbors(svc, w, now) returns under key u
\* is, when the call returns, an element of the ring of the edge (u, svc),
\* whatever add_observation calls, evictions and prune_old_edges came before.
C29_ReturnedFromRing ==
    neighbors # None =>
        \A u \in DOMAIN neighbors[1].upstream :
            \A i \in 1..Len(neighbors[1].upstream[u]) :
                /\ << u, neighbors[1].service >> \in DOMAIN graph_edges
                /\ \E j \in 1..Len(graph_edges[<< u, neighbors[1].service >>]) :
                       graph_edges[<< u, neighbors[1].service >>][j] = neighbors[1].upstream[u][i]

\* a query returns observations after the index has evicted entries and a
\* prune has removed an edge
C29_Witness ==
    /\ neighbors # None
    /\ \E u \in DOMAIN neighbors[1].upstream : neighbors[1].upstream[u] # << >>
    /\ n_added > MaxEdges
    /\ PrunedEdges # {}

\* the add_observation call that wrote entry k of the global index: the index
\* holds the entries of the latest calls
EntryCall(k) ==
    add_calls[Len(add_calls) - Len(observations) + k]

\* the observation of entry k is no longer in the ring of its edge
Stale(k) ==
    LET c == EntryCall(k)
        ring == EdgeObs(graph_edges, << c.from_service, c.to_service >>)
    IN  \A j \in 1..Len(ring) : ring[j] # c.obs

\* the index entries the query q walks through that point to q.service
EntriesOf(q) ==
    { k \in 1..Len(observations) :
          /\ observations[k][1] >= q.current_time - q.time_window_seconds
          /\ observations[k][3] = q.service }

\* C30: an index entry in the window whose observation is no longer in the
\* ring of its edge (evicted, or pruned) makes get_causal_neighbors raise
\* nothing and return no observation for that entry, while the source service
\* of the entry is still a key of the result.
C30_StaleEntryYieldsNothing ==
    neighbors # None =>
        /\ \A k \in EntriesOf(neighbors[1]) : observations[k][2] \in DOMAIN neighbors[1].upstream
        /\ \A u \in DOMAIN neighbors[1].upstream :
               Len(neighbors[1].upstream[u]) <=
                   Cardinality({ k \in EntriesOf(neighbors[1]) :
                                     observations[k][2] = u /\ ~Stale(k) })

\* the cached state of node n, None when it has none
CachedState(states, n) ==
    IF n \in DOMAIN states THEN Some(states[n]) ELSE None

\* C31: an add_observation that carries a CPU value, a memory value or both
\* overwrites the cached state of the source node with them and the timestamp
\* of the observation; one that carries neither leaves every cached state as
\* it is; none changes the cached state of the target or of a third node.
C31_Step ==
    n_added' = n_added + 1 =>
        LET c == add_calls'[n_added']
        IN  /\ \A n \in Services \ { c.from_service } :
                   CachedState(service_states', n) = CachedState(service_states, n)
            /\ IF c.obs.cpu_from # None \/ c.obs.mem_from # None
               THEN CachedState(service_states', c.from_service) =
                        Some([current_cpu |-> c.obs.cpu_from,
                              current_memory |-> c.obs.mem_from,
                              last_updated |-> c.obs.timestamp])
               ELSE CachedState(service_states', c.from_service) =
                        CachedState(service_states, c.from_service)

C31_MetricsOverwriteSource ==
    [][C31_Step]_vars

\* caller c is inside the "async with self._lock" block of a method
Inside(c) ==
    callers[c].pc # "idle"

\* at most one caller is inside, and it is the holder of the lock
C32_Mutex ==
    /\ \A c, d \in Callers : Inside(c) /\ Inside(d) => c = d
    /\ \A c \in Callers : Inside(c) <=> lock = Some(c)

\* a statement of a method body runs only while no other caller is between
\* two of its own statements
C32_Step ==
    \A c \in Callers :
        Inside(c) /\ callers'[c] # callers[c] =>
            \A d \in Callers \ { c } : callers[d].pc = "idle"

\* rings and index change only in a statement of the caller that holds the lock
C32_WritesUnderLock ==
    << graph_edges, observations, service_states, graph_nodes >>' #
        << graph_edges, observations, service_states, graph_nodes >> =>
            \E c \in Callers : lock = Some(c) /\ callers'[c] # callers[c]

\* C32: add_observation, get_causal_neighbors and prune_old_edges exclude one
\* another: at most one of them is inside the lock at any time, so none sees
\* rings, index and node states that another call has updated only in part.
C32_MutuallyExclusive ==
    []C32_Mutex /\ [][C32_Step /\ C32_WritesUnderLock]_vars

\* one caller is between the ring append and the index append of its
\* add_observation while the other has work to do and stays outside
C32_Witness ==
    /\ callers["c1"].pc = "index"
    /\ callers["c2"].pc = "idle"
    /\ lock = Some("c1")
    /\ n_added = 1
    /\ Len(observations) = 1
    /\ ~ENABLED lock_enter("c2", "prune", [cutoff |-> 0])

\* an embedding/insert, a model fit or a diagnosis call is in progress
BlockingWork ==
    pc_ingestion \in { "exec", "added" } \/ pc_analysis \in { "fit", "diagnose" }

\* C33: while an embedding/insert call, a causal model fit or a diagnosis call
\* is in progress, submit_log can enqueue and the other stages can take their
\* steps: the action stage takes a waiting request, the ingestion stage a
\* waiting log.
C33_BlockingWorkOffLoop ==
    BlockingWork /\ running =>
        /\ n_submitted < MaxModelSubmits => ENABLED loop_submit_log
        /\ pc_action = "get" /\ action_queue # << >> => ENABLED loop_action_get
        /\ pc_ingestion = "get" /\ raw_queue # << >> => ENABLED loop_ingestion_get

C35_Step ==
    \* a model is built only from more than 100 rows, by a cycle that found the
    \* condition on the marker and the counter true
    /\ n_fits' # n_fits =>
           /\ n_fits' = n_fits + 1
           /\ pc_analysis = "fit" /\ pc_analysis' = "diagnose"
           /\ cached_model'
    /\ pc_analysis' = "fit" /\ pc_analysis # "fit" =>
           pc_analysis = "fetch" /\ Len(memory) > MinModelRows
    /\ pc_analysis' = "fetch" /\ pc_analysis # "fetch" =>
           /\ pc_analysis = "context" /\ recent_errors > AnomalyThreshold
           /\ ~cached_model \/ stats.processed % RebuildPeriod = 0
    \* the marker is set by a build and by nothing else, and is never removed
    /\ cached_model' # cached_model => cached_model' /\ n_fits' = n_fits + 1
    \* a cycle that does not meet the condition goes on without a build
    /\ pc_analysis = "context" /\ pc_analysis' = "diagnose" =>
           n_fits' = n_fits /\ cached_model' = cached_model

\* the marker is there exactly when a model has been built
C35_Marker ==
    cached_model <=> n_fits > 0

\* C35: an anomalous cycle rebuilds the causal model only if (no model has
\* been built yet or stats.processed is a multiple of 500) and the full data
\* set has more than 100 rows; every other cycle leaves model and estimate as
\* they are; the marker is set only by a cycle that has rebuilt the model.
C35_RebuildOnlyWhenDue ==
    []C35_Marker /\ [][C35_Step]_vars

\* the model was built once from 101 rows; with one log counted, the next
\* anomalous cycle is in _build_context and will not fetch the rows again
C35_Witness ==
    /\ n_fits = 1
    /\ cached_model
    /\ stats.processed = 1
    /\ Len(memory) = MinModelRows + 1
    /\ n_cycles = 2
    /\ pc_analysis = "context"
    /\ ~ENABLED analysis_fetch
    /\ ENABLED analysis_context

\* the index holds the entries of the latest calls in the order of the calls,
\* whatever their timestamps, and so does every ring; a query can be made
C34_AsSubmitted ==
    /\ observations = Suffix(CallsIndex, max_edges)
    /\ \A e \in DOMAIN graph_edges : graph_edges[e] = Suffix(CallsOn(e), EdgeMaxlen)
    /\ ENABLED get_causal_neighbors("B", 2, 4)

\* a call is taken whatever its timestamp
C34_Step ==
    n_added < MaxUnsortedAdds =>
        \A e \in UnsortedEdges, ts \in UnsortedTimes :
            ENABLED add_observation(e[1], e[2], 10, ts, None, None, MaxUnsortedAdds)

\* C34: the graph neither sorts nor rejects input that is out of order; after
\* such input get_causal_neighbors(svc, w, now) can leave out an observation
\* that targets svc with a timestamp in [now - w, now] and can return one with
\* a timestamp below now - w, and it raises nothing.
C34_NeitherSortsNorRejects ==
    C34_AsSubmitted /\ C34_Step

\* a query has left out an observation of its window and returned one that is
\* older than its window
C34_Witness ==
    /\ neighbors # None
    /\ \E e \in DOMAIN graph_edges : \E j \in 1..Len(graph_edges[e]) :
           /\ e[2] = neighbors[1].service
           /\ graph_edges[e][j].timestamp >= neighbors[1].current_time - neighbors[1].time_window_seconds
           /\ graph_edges[e][j].timestamp <= neighbors[1].current_time
           /\ \A i \in 1..Len(Returned(neighbors[1], e[1])) :
                  Returned(neighbors[1], e[1])[i] # graph_edges[e][j]
    /\ \E u \in DOMAIN neighbors[1].upstream : \E i \in 1..Len(neighbors[1].upstream[u]) :
           neighbors[1].upstream[u][i].timestamp <
               neighbors[1].current_time - neighbors[1].time_window_seconds

\* ids of the logs of this run by condition
InFlightIds ==
    { cur_log[i].id : i \in 1..Len(cur_log) }
CountedIds ==
    { id \in StoredIds : id > 0 } \ InFlightIds
Conditions ==
    << dropped, QueuedIds, InFlightIds, CountedIds, failed >>

\* C36: with no DELETE /memory, every log handed to submit_log is in exactly
\* one condition: dropped at submit, waiting in raw_queue, in flight in the
\* ingestion stage, inserted and counted in stats.processed, or failed at the
\* insert; so stats.processed plus the failed inserts plus the logs in flight
\* plus len(raw_queue) is the number of logs submit_log accepted, and no log is
\* ingested twice.
C36_Conservation ==
    /\ \A id \in 1..n_submitted :
           Cardinality({ k \in 1..Len(Conditions) : id \in Conditions[k] }) = 1
    /\ \A k \in 1..Len(Conditions) : Conditions[k] \subseteq 1..n_submitted
    /\ Cardinality(CountedIds) = stats.processed
    /\ Cardinality(QueuedIds) = Len(raw_queue)
    /\ stats.processed + Cardinality(failed) + Cardinality(InFlightIds) + Len(raw_queue)
           = n_submitted - Cardinality(dropped)
    /\ \A i, j \in 1..Len(memory) : memory[i].id = memory[j].id => i = j

\* of three logs one was dropped at submit, one failed at the insert, and one
\* is counted
C36_Witness ==
    /\ n_submitted = 3
    /\ Cardinality(dropped) = 1
    /\ Cardinality(failed) = 1
    /\ stats.processed = 1
    /\ raw_queue = << >>
    /\ pc_ingestion = "head"

\* the requests made so far, and the cycles that have run to their end
RequestsMade ==
    n_exec + Len(action_queue)
CyclesEnded ==
    IF pc_analysis \in { "new", "head", "done" } THEN n_cycles ELSE n_cycles - 1

C37_Step ==
    \* the query looks at the store alone
    /\ pc_analysis = "query" /\ pc_analysis' # "query" /\ ~start_raised' =>
           /\ recent_errors' = Len(get_recent_errors(memory, now, LookbackMinutes))
           /\ recent_errors' > AnomalyThreshold => pc_analysis' = "context"
    \* a confident diagnosis leads to a request, whatever was requested before
    /\ analysis_diagnose(DiagScale) =>
           /\ pending' = Some(ActionRequest(DiagScale, n_cycles))
           /\ pc_analysis' = "put"

\* C37: the analysis stage keeps no memory of the incidents it has acted on:
\* as long as more than 3 errors are inside the lookback window and the
\* diagnosis comes with a confidence above 0.8, every cycle enqueues one more
\* request, so an unchanged burst of errors yields one remediation per cycle.
C37_OneRequestPerCycle ==
    /\ [](pc_analysis # "crashed" => RequestsMade = CyclesEnded)
    /\ [][C37_Step]_vars

\* three cycles over the same four errors have led to three executions of the
\* same remediation
C37_Witness ==
    /\ n_cycles = 3
    /\ n_exec = 3
    /\ Len(remediation_history) = 3
    /\ \A i \in 1..Len(remediation_history) :
           /\ remediation_history[i].action = DiagScale.recommended_action
           /\ remediation_history[i].target = DiagScale.affected_service
    /\ Len(get_recent_errors(memory, now, LookbackMinutes)) = 4
    /\ pc_analysis = "head"

\* a step of one of the two clear requests, seen by its effect
ClearStep ==
    /\ remediation_history' = << >>
    /\ stats' \in { stats, ZeroStats }

C38_Step ==
    \* the call of stop() leaves both queues as they are
    /\ (running /\ ~running') =>
           /\ raw_queue' = raw_queue
           /\ action_queue' = action_queue
    /\ AllExited =>
           \* what waits in the queues stays there
           /\ action_queue' = action_queue
           /\ \/ raw_queue' = raw_queue
              \/ /\ ~Full(raw_queue, MaxQueueSize)
                 /\ Len(raw_queue') = Len(raw_queue) + 1
                 /\ SubSeq(raw_queue', 1, Len(raw_queue)) = raw_queue
           \* the counters and the history change by a clear request only
           /\ \/ /\ stats'.processed = stats.processed
                 /\ stats'.remediations = stats.remediations
                 /\ remediation_history' = remediation_history
              \/ ClearStep
           /\ memory' # memory => memory' = << >> /\ ClearStep
           \* a submitted log is accepted while raw_queue has room
           /\ (n_submitted' # n_submitted /\ ~Full(raw_queue, MaxQueueSize)) =>
                  /\ Len(raw_queue') = Len(raw_queue) + 1
                  /\ raw_queue'[Len(raw_queue')].id = n_submitted'
                  /\ dropped' = dropped
           /\ AllExited'

\* C38: stop() does not drain the queues: the logs in rawQueue and the requests
\* in actionQueue when the stages exit stay there unprocessed; once all four
\* stages have exited, processed, remediations and the history change only by
\* a clear request, and submit accepts logs until rawQueue is full.
C38_StopLeavesQueues ==
    /\ [](AllExited => (Len(raw_queue) < MaxQueueSize => ENABLED submit_log("ERROR", now, n_submitted + 1)))
    /\ [][C38_Step]_vars

\* all four stages have exited with a request left in actionQueue and rawQueue
\* filled up by logs that nobody will take
C38_Witness ==
    /\ AllExited
    /\ Len(action_queue) = 1
    /\ Len(raw_queue) = MaxQueueSize
    /\ stats.processed = 1
    /\ n_submitted = MaxSubmits

\* sub is what is left of seq when some of its elements are taken out
RECURSIVE IsSubsequence(_, _)
IsSubsequence(sub, seq) ==
    IF sub = << >> THEN TRUE
    ELSE IF seq = << >> THEN FALSE
    ELSE IF Head(sub) = Head(seq) THEN IsSubsequence(Tail(sub), Tail(seq))
    ELSE IsSubsequence(sub, Tail(seq))

\* a step of prune_old_edges: the one call that adds no observation and
\* returns nothing
C39_Step ==
    (n_added' = n_added /\ neighbors' = None) =>
        /\ observations' = observations
        /\ graph_nodes' = graph_nodes
        /\ service_states' = service_states
        /\ DOMAIN graph_edges' \subseteq DOMAIN graph_edges
        /\ \A e \in DOMAIN graph_edges' : IsSubsequence(graph_edges'[e], graph_edges[e])

\* C39: prune_old_edges changes the rings of the edges and the edge set only:
\* the global index, the node set and the cached state of every node stay as
\* they are, so the index entries of pruned observations stay in the index
\* until the max_edges cap evicts them.
C39_PruneFrame ==
    /\ [](observations = Suffix(CallsIndex, max_edges))
    /\ [][C39_Step]_vars

\* a prune has just removed an edge whose entry is still in the index and
\* whose source is still a node with its cached state
C39_Witness ==
    /\ neighbors = None
    /\ \E k \in 1..Len(observations) :
           /\ << observations[k][2], observations[k][3] >> \notin DOMAIN graph_edges
           /\ Stale(k)
           /\ observations[k][2] \in DOMAIN service_states
           /\ observations[k][2] \in DOMAIN graph_nodes
           /\ graph_nodes[observations[k][2]] # << >>

\* two timestamps less than 0.001 s apart
Close(t1, t2) ==
    Abs(t1 - t2) < Epsilon

\* the ring of the edge (u, q.service)
RingOf(q, u) ==
    EdgeObs(graph_edges, << u, q.service >>)

\* the index entries of the edge (u, q.service) that the query q walks through
Walked(q, u) ==
    { k \in EntriesOf(q) : observations[k][2] = u }

\* position i holds the earliest observation of ring within 0.001 s of ts
EarliestClose(ring, i, ts) ==
    /\ Close(ring[i].timestamp, ts)
    /\ \A j \in 1..(i - 1) : ~Close(ring[j].timestamp, ts)

\* how often the observation r occurs in list
Occurrences(list, r) ==
    Cardinality({ n \in 1..Len(list) : list[n] = r })

\* the observation at position i of the ring of (u, q.service) has its entry
\* among those the query walks through
EntryWalked(q, u, i) ==
    \E k \in Walked(q, u) : EntryCall(k).obs = RingOf(q, u)[i]

\* nothing else of the edge, observation or entry, is within 0.001 s of the
\* observations at positions i and j
Isolated(q, u, i, j) ==
    LET ring == RingOf(q, u)
    IN  /\ \A m \in 1..Len(ring) \ { i, j } :
               /\ ~Close(ring[m].timestamp, ring[i].timestamp)
               /\ ~Close(ring[m].timestamp, ring[j].timestamp)
        /\ \A k \in Walked(q, u) :
               \/ EntryCall(k).obs \in { ring[i], ring[j] }
               \/ /\ ~Close(observations[k][1], ring[i].timestamp)
                  /\ ~Close(observations[k][1], ring[j].timestamp)

\* the pairs of the claim: two observations of the ring of (u, q.service), the
\* one at i before the one at j, less than 0.001 s apart, both entries walked
ClosePairs(q, u) ==
    { p \in (1..Len(RingOf(q, u))) \X (1..Len(RingOf(q, u))) :
          /\ p[1] < p[2]
          /\ Close(RingOf(q, u)[p[1]].timestamp, RingOf(q, u)[p[2]].timestamp)
          /\ EntryWalked(q, u, p[1])
          /\ EntryWalked(q, u, p[2]) }

====
